---- MODULE Spec2Model ----
(***************************************************************************)
(* A model of the Interloper scraper service (Interloper.Scraper/app):     *)
(* the dispatch orchestrator and the single-platform search of main.py,    *)
(* the ScraperRegistry of scrapers/registry.py, the CacheService of        *)
(* cache.py and its key construction, the three API adapters of            *)
(* scrapers/*_api.py, and of scrapers/base.py the _fetch_page primitive    *)
(* and the HTTP client an adapter gets and closes.                         *)
(* Python's None is the empty tuple and a present value v                  *)
(* is the one-element tuple <<v>>; a Python string is either an atom (a    *)
(* platform name, an exception message) or a sequence of tokens.           *)
(***************************************************************************)
EXTENDS Integers, Sequences, FiniteSets, TLC

VARIABLES
    _scrapers,                \* ScraperRegistry._scrapers: insertion-ordered dict, as a sequence of entries
    scraper_client,           \* scraper id -> BaseScraper._client: "none" | "open"
    next_scraper,             \* the id the next constructed scraper instance gets
    register_log,             \* the scrapers passed to register(), in call order
    close_all,                \* ScraperRegistry.close_all(): its position in the loop
    close_log,                \* the scraper ids whose close() close_all() has awaited, in order
    max_concurrent_requests,  \* settings.max_concurrent_requests
    request,                  \* the SearchRequest being served (its platforms field)
    phase,                    \* search_hotels: "idle" | "gathering" | "responded" | "rejected" | "failed"
    scrapers,                 \* search_hotels: the selected scrapers, in dispatch order
    platforms_searched,       \* search_hotels: [s.platform_name for s in scrapers]
    semaphore,                \* the value of asyncio.Semaphore(max_concurrent_requests)
    task,                     \* per run_scraper task: where it is and what its search did
    results_lists,            \* per task: what run_scraper returned (None until it has)
    errors,                   \* search_hotels: the errors list
    search_calls,             \* the scraper.search(...) calls made, in order (platform names)
    response,                 \* the SearchResponse returned (None until then)
    redis_url,                \* settings.redis_url, as its truth value: is a URL configured
    redis_up,                 \* the backing store answers (the environment may change it)
    cache_client,             \* CacheService._client: "none" | "client"
    store,                    \* the backing store: key -> None or Some([data, ttl])
    cache_call,               \* the last CacheService call: what it met and how it ended
    key_in,                   \* the arguments of a key construction
    key_out,                  \* the keys it built (None until then)
    adapter,                  \* the adapter under study: its platform_name
    now,                      \* the time, in seconds
    expires_at,               \* the backing store: key -> the instant its record expires
    lookups,                  \* per city: the last destination record a provider lookup led to
    call,                     \* the search() call in flight: where it is and what it did
    item_in,                  \* a result array to process: the adapter, the criteria, the items
    item_out,                 \* the results the adapter's loop made of it (None until then)
    fetch,                    \* a _fetch_page call: where it is and what it did
    single,                   \* a search_single_platform call: where it is and what it did
    http                      \* one adapter's HTTP clients: _client, those made, close() under way

vars == <<_scrapers, scraper_client, next_scraper, register_log, close_all, close_log,
          max_concurrent_requests, request, phase, scrapers, platforms_searched,
          semaphore, task, results_lists, errors, search_calls, response,
          redis_url, redis_up, cache_client, store, cache_call, key_in, key_out,
          adapter, now, expires_at, lookups, call,
          item_in, item_out, fetch, single, http>>

registry_vars == <<_scrapers, scraper_client, next_scraper, register_log, close_all, close_log>>

batch_vars == <<max_concurrent_requests, request, phase, scrapers, platforms_searched,
                semaphore, task, results_lists, errors, search_calls, response>>

cache_vars == <<redis_url, redis_up, cache_client, store, cache_call>>

key_vars == <<key_in, key_out>>

adapter_vars == <<adapter, now, expires_at, lookups, call>>

item_vars == <<item_in, item_out>>

fetch_vars == <<fetch>>

single_vars == <<single>>

http_vars == <<http>>

----------------------------------------------------------------------------
(* Python values *)

None == <<>>

Some(v) == <<v>>

SeqsUpTo(S, n) == UNION {[1..k -> S] : k \in 0..n}

Range(s) == {s[i] : i \in DOMAIN s}

\* no result array under way, no single-platform search
ItemAtRest == item_in = None /\ item_out = None

\* main.py 134-173: search_single_platform before a request: no platform named, no
\* adapter called, neither a response nor an HTTPException
IdleSingle ==
    [pc |-> "idle", platform |-> None, called |-> <<>>, outcome |-> None,
     response |-> None, exception |-> None]

SingleAtRest == single = IdleSingle

MaxSearches == 2        \* most searches in flight on one adapter

\* base.py 23-25: an adapter as constructed: no client made, no search holding
\* one, no close() under way
IdleHttp ==
    [_client |-> None, created |-> 0, closed |-> {}, close |-> "idle",
     using |-> [s \in 1..MaxSearches |-> None],
     returned |-> FALSE, leftover |-> {}]

HttpAtRest == http = IdleHttp

RECURSIVE Join(_, _)
\* sep.join(parts): the parts (each a token sequence) with sep between neighbours
Join(sep, parts) ==
    IF parts = <<>> THEN <<>>
    ELSE IF Len(parts) = 1 THEN parts[1]
    ELSE parts[1] \o <<sep>> \o Join(sep, Tail(parts))

----------------------------------------------------------------------------
(* Bounds of the model *)

MaxPlatforms == 2       \* longest explicit platform list of a request

MaxHotels == 1          \* longest result list one adapter search returns

MaxConcurrent == 2      \* largest configured max_concurrent_requests

MaxRegistrations == 4   \* most register() calls in one run of the registry

\* the platform names of the three adapters the registry registers by default
DefaultPlatforms == <<"booking", "hotels_com", "priceline">>

\* names a request may list: two registered ones and one no adapter has
RequestNames == {"booking", "hotels_com", "expedia"}

\* prices an adapter may report: zero, an ordinary one, one above the sort sentinel
PriceValues == {0, 10, 1000000}

\* str(e) of the exceptions an adapter search may raise
Messages == {"timeout"}

----------------------------------------------------------------------------
(* scrapers/registry.py: ScraperRegistry *)

\* a scraper instance: its identity and its class's platform_name
Scraper(id, name) == [id |-> id, platform_name |-> name]

\* the dict an empty registry builds by registering one fresh scraper per name, in order
RegistryOf(names) ==
    [i \in 1..Len(names) |-> [key |-> names[i], value |-> Scraper(i, names[i])]]

\* a variant of register that keeps the scraper already registered under the name
DictSetKeepFirst(d, k, v) ==
    IF \E i \in DOMAIN d : d[i].key = k THEN d ELSE Append(d, [key |-> k, value |-> v])

\* dict.__setitem__: a key already present keeps its position and takes the new value
DictSet(d, k, v) ==
    IF \E i \in DOMAIN d : d[i].key = k
    THEN [i \in DOMAIN d |-> IF d[i].key = k THEN [key |-> k, value |-> v] ELSE d[i]]
    ELSE Append(d, [key |-> k, value |-> v])

\* ScraperRegistry.get(platform): the scraper registered under platform, or None
get(platform) ==
    IF \E i \in DOMAIN _scrapers : _scrapers[i].key = platform
    THEN Some((CHOOSE e \in Range(_scrapers) : e.key = platform).value)
    ELSE None

\* ScraperRegistry.get_all(): list(self._scrapers.values())
get_all == [i \in DOMAIN _scrapers |-> _scrapers[i].value]

\* ScraperRegistry.get_platforms(): list(self._scrapers.keys())
get_platforms == [i \in DOMAIN _scrapers |-> _scrapers[i].key]

\* registry.py 30-33: register(scraper), called with a newly constructed scraper
\* of the platform name (base.py 23-25: its _client is None)
Register(name) ==
    /\ close_all = "idle"
    /\ next_scraper <= MaxRegistrations
    /\ LET scraper == Scraper(next_scraper, name)
       IN  /\ _scrapers' = DictSet(_scrapers, scraper.platform_name, scraper)
           /\ register_log' = Append(register_log, scraper)
    /\ scraper_client' = Append(scraper_client, "none")
    /\ next_scraper' = next_scraper + 1
    /\ UNCHANGED <<close_all, close_log>>
    /\ UNCHANGED <<batch_vars, cache_vars, key_vars,
                 adapter_vars, item_vars, fetch_vars, single_vars, http_vars>>

\* base.py 27-35: get_client() creates the scraper's HTTP client when it has none
GetClient(id) ==
    /\ close_all = "idle"
    /\ id \in DOMAIN scraper_client
    /\ scraper_client[id] = "none"
    /\ scraper_client' = [scraper_client EXCEPT ![id] = "open"]
    /\ UNCHANGED <<_scrapers, next_scraper, register_log, close_all, close_log>>
    /\ UNCHANGED <<batch_vars, cache_vars, key_vars,
                 adapter_vars, item_vars, fetch_vars, single_vars, http_vars>>

\* registry.py 47-49: close_all() starts its loop over self._scrapers.values()
CloseAllStart ==
    /\ close_all = "idle"
    /\ close_all' = "running"
    /\ UNCHANGED <<_scrapers, scraper_client, next_scraper, register_log, close_log>>
    /\ UNCHANGED <<batch_vars, cache_vars, key_vars,
                 adapter_vars, item_vars, fetch_vars, single_vars, http_vars>>

\* registry.py 49-50 with base.py 37-41: one `await scraper.close()`. close() does
\* nothing without an open client; with one it awaits aclose(), which either
\* releases the client (then _client = None) or raises, and what it raises leaves
\* close() and close_all()
CloseAllStep(released) ==
    /\ close_all = "running"
    /\ Len(close_log) < Len(_scrapers)
    /\ LET scraper == _scrapers[Len(close_log) + 1].value
       IN  /\ close_log' = Append(close_log, scraper.id)
           /\ IF scraper_client[scraper.id] # "open"
              THEN UNCHANGED <<scraper_client, close_all>>
              ELSE IF released
              THEN /\ scraper_client' = [scraper_client EXCEPT ![scraper.id] = "none"]
                   /\ UNCHANGED close_all
              ELSE /\ close_all' = "raised"
                   /\ UNCHANGED scraper_client
    /\ UNCHANGED <<_scrapers, next_scraper, register_log>>
    /\ UNCHANGED <<batch_vars, cache_vars, key_vars,
                 adapter_vars, item_vars, fetch_vars, single_vars, http_vars>>

\* registry.py 49: the loop has gone through every scraper; close_all() returns
CloseAllReturn ==
    /\ close_all = "running"
    /\ Len(close_log) = Len(_scrapers)
    /\ close_all' = "done"
    /\ UNCHANGED <<_scrapers, scraper_client, next_scraper, register_log, close_log>>
    /\ UNCHANGED <<batch_vars, cache_vars, key_vars,
                 adapter_vars, item_vars, fetch_vars, single_vars, http_vars>>

----------------------------------------------------------------------------
(* cache.py: key construction.  Here a string is the sequence of its           *)
(* characters' ASCII codes.                                                    *)

\* ":" and the prefixes "dest" and "search" (cache.py 54, 106, 123)
Colon == 58

DestPrefix == <<100, 101, 115, 116>>

SearchPrefix == <<115, 101, 97, 114, 99, 104>>

\* cache.py 56: keys whose data is longer than this are hashed
KeyHashThreshold == 100

\* cache.py 57: the number of hex digits kept of the digest
KeyHashLen == 16

IsUpper(c) == c >= 65 /\ c <= 90

\* a variant of str.lower() that leaves the string as it is
LowerNoop(str) == str

\* str.lower() on ASCII: the letters A-Z go to a-z, every other character stays
Lower(str) == [i \in DOMAIN str |-> IF IsUpper(str[i]) THEN str[i] + 32 ELSE str[i]]

RECURSIVE Digits(_)
\* str(n) for a non-negative int: its decimal digits
Digits(n) == IF n < 10 THEN <<48 + n>> ELSE Digits(n \div 10) \o <<48 + (n % 10)>>

\* one hex digit, as hexdigest() writes it
HexChar(d) == IF d < 10 THEN 48 + d ELSE 87 + d

RECURSIVE WeightedSum(_, _, _)
\* the sum of str[i] * i over lo..hi, by halves
WeightedSum(str, lo, hi) ==
    IF lo > hi THEN 0
    ELSE IF lo = hi THEN str[lo] * lo
    ELSE WeightedSum(str, lo, (lo + hi) \div 2) + WeightedSum(str, (lo + hi) \div 2 + 1, hi)

\* a stand-in for the MD5 digest of cache.py 57: a 16-bit hash of the string,
\* a function of every character and its position
Digest(str) == (7 + Len(str) + WeightedSum(str, 1, Len(str))) % 65536

\* hashlib.md5(key_data.encode()).hexdigest()[:16]: the first KeyHashLen hex
\* digits of the digest, here the stand-in's four digits repeated
KeyHash(key_data) ==
    LET h == Digest(key_data)
        hex == <<HexChar(h \div 4096), HexChar((h \div 256) % 16),
                 HexChar((h \div 16) % 16), HexChar(h % 16)>>
    IN  [i \in 1..KeyHashLen |-> hex[((i - 1) % 4) + 1]]

\* cache.py 54: ":".join(str(arg) for arg in args)
KeyData(args) == Join(Colon, args)

\* cache.py 52-59: _make_key(prefix, *args)
_make_key(prefix, args) ==
    IF Len(KeyData(args)) > KeyHashThreshold
    THEN prefix \o <<Colon>> \o KeyHash(KeyData(args))
    ELSE prefix \o <<Colon>> \o KeyData(args)

\* cache.py 106, 111: the key of get_destination and set_destination
DestinationKey(platform, city) == _make_key(DestPrefix, <<platform, Lower(city)>>)

\* cache.py 123, 136: the key of get_search_results and set_search_results
SearchResultsKey(platform, city, check_in, check_out, guests) ==
    _make_key(SearchPrefix, <<platform, Lower(city), check_in, check_out, Digits(guests)>>)

MaxCityLen == 2         \* longest city name of a key construction

\* characters of the city names: "A", "a" and "-"
CityChars == {65, 97, 45}

\* lengths of the platform names, around the lengths at which keys get hashed
PlatformLens == {7, 74, 75, 76, 97, 98, 99}

\* a platform name of n characters
PlatformOfLen(n) == [i \in 1..n |-> 112]

\* check_in and check_out as passed to the search-result keys: "2026-01-01"
DateStr == <<50, 48, 50, 54, 45, 48, 49, 45, 48, 49>>

\* SearchRequest.guests: ge=1, le=10 (schemas.py 14)
GuestValues == {1, 10}

\* the arguments of one key construction, for two cities
KeyInputs ==
    [kind : {"dest", "search"}, platform : {PlatformOfLen(n) : n \in PlatformLens},
     city1 : SeqsUpTo(CityChars, MaxCityLen), city2 : SeqsUpTo(CityChars, MaxCityLen),
     guests : GuestValues]

\* the key the cache builds for a city, by the kind of record
KeyFor(in, city) ==
    IF in.kind = "dest"
    THEN DestinationKey(in.platform, city)
    ELSE SearchResultsKey(in.platform, city, DateStr, DateStr, in.guests)

\* the key data of that key, as _make_key composes it
KeyDataFor(in, city) ==
    IF in.kind = "dest"
    THEN KeyData(<<in.platform, Lower(city)>>)
    ELSE KeyData(<<in.platform, Lower(city), DateStr, DateStr, Digits(in.guests)>>)

\* cache.py 104-137: the cache builds the keys for the two cities
MakeKeys ==
    /\ key_out = None
    /\ key_out' = Some(<<KeyFor(key_in, key_in.city1), KeyFor(key_in, key_in.city2)>>)
    /\ UNCHANGED key_in
    /\ UNCHANGED <<registry_vars, batch_vars, cache_vars,
                 adapter_vars, item_vars, fetch_vars, single_vars, http_vars>>

\* no key construction under way
KeyAtRest ==
    /\ key_in = [kind |-> "dest", platform |-> <<>>, city1 |-> <<>>, city2 |-> <<>>,
                 guests |-> 1]
    /\ key_out = None

----------------------------------------------------------------------------
(* cache.py: CacheService over the backing store *)

\* config.py 25-26: cache_destination_ttl and cache_search_ttl, in seconds
cache_destination_ttl == 86400

cache_search_ttl == 300

\* the platform name "booking" (booking_api.py 22)
BookingStr == <<98, 111, 111, 107, 105, 110, 103>>

\* the keys of the store in this model: the destination keys of two cities and
\* one search-result key
CacheKeys ==
    {DestinationKey(BookingStr, <<97>>), DestinationKey(BookingStr, <<45>>),
     SearchResultsKey(BookingStr, <<97>>, DateStr, DateStr, 2)}

\* the values callers cache (dicts and lists, here atoms)
CacheValues == {"v1", "v2"}

\* json.dumps(value) and json.loads(data); data that is not JSON makes loads raise
Dumps(value) == <<"json", value>>

IsJson(data) == Len(data) = 2 /\ data[1] = "json"

Loads(data) == data[2]

\* data another writer left under a key: not JSON
Garbage == <<"garbage">>

\* what a CacheService call met and how it ended
CacheCall(op, connected, contacted, failed, outcome, result) ==
    [op |-> op, connected |-> connected, contacted |-> contacted, failed |-> failed,
     outcome |-> outcome, result |-> result]

\* cache.py 21-38: connect(). Without a URL it returns at once; else it builds the
\* client and pings the store, and on any exception logs it and drops the client
Connect ==
    /\ IF ~redis_url
       THEN /\ cache_call' = CacheCall("connect", cache_client # "none", FALSE, FALSE,
                                       "returned", None)
            /\ UNCHANGED cache_client
       ELSE IF redis_up
       THEN /\ cache_client' = "client"
            /\ cache_call' = CacheCall("connect", cache_client # "none", TRUE, FALSE,
                                       "returned", None)
       ELSE /\ cache_client' = "none"
            /\ cache_call' = CacheCall("connect", cache_client # "none", TRUE, TRUE,
                                       "returned", None)
    /\ UNCHANGED <<redis_url, redis_up, store>>
    /\ UNCHANGED <<registry_vars, batch_vars, key_vars,
                 adapter_vars, item_vars, fetch_vars, single_vars, http_vars>>

\* cache.py 40-45: disconnect(). The close of the client is not guarded: what it
\* raises leaves disconnect() with the client still set
Disconnect(closed) ==
    /\ IF cache_client = "none"
       THEN /\ cache_call' = CacheCall("disconnect", FALSE, FALSE, FALSE, "returned", None)
            /\ UNCHANGED cache_client
       ELSE IF closed
       THEN /\ cache_client' = "none"
            /\ cache_call' = CacheCall("disconnect", TRUE, TRUE, FALSE, "returned", None)
       ELSE /\ cache_call' = CacheCall("disconnect", TRUE, TRUE, TRUE, "raised", None)
            /\ UNCHANGED cache_client
    /\ UNCHANGED <<redis_url, redis_up, store>>
    /\ UNCHANGED <<registry_vars, batch_vars, key_vars,
                 adapter_vars, item_vars, fetch_vars, single_vars, http_vars>>

\* a variant of get() without the try/except around the store call
CacheGetUnguarded(key) ==
    /\ IF cache_client = "none"
       THEN cache_call' = CacheCall("get", FALSE, FALSE, FALSE, "returned", None)
       ELSE IF ~redis_up \/ (store[key] # None /\ ~IsJson(store[key][1].data))
       THEN cache_call' = CacheCall("get", TRUE, TRUE, TRUE, "raised", None)
       ELSE IF store[key] # None
       THEN cache_call' = CacheCall("get", TRUE, TRUE, FALSE, "returned",
                                    Some(Loads(store[key][1].data)))
       ELSE cache_call' = CacheCall("get", TRUE, TRUE, FALSE, "returned", None)
    /\ UNCHANGED <<redis_url, redis_up, cache_client, store>>
    /\ UNCHANGED <<registry_vars, batch_vars, key_vars,
                 adapter_vars, item_vars, fetch_vars, single_vars, http_vars>>

\* cache.py 61-75: get(key). None without a client; else the store's data decoded,
\* None on a miss, and None when the store call or the decoding raises
CacheGet(key) ==
    /\ IF cache_client = "none"
       THEN cache_call' = CacheCall("get", FALSE, FALSE, FALSE, "returned", None)
       ELSE IF ~redis_up \/ (store[key] # None /\ ~IsJson(store[key][1].data))
       THEN cache_call' = CacheCall("get", TRUE, TRUE, TRUE, "returned", None)
       ELSE IF store[key] # None
       THEN cache_call' = CacheCall("get", TRUE, TRUE, FALSE, "returned",
                                    Some(Loads(store[key][1].data)))
       ELSE cache_call' = CacheCall("get", TRUE, TRUE, FALSE, "returned", None)
    /\ UNCHANGED <<redis_url, redis_up, cache_client, store>>
    /\ UNCHANGED <<registry_vars, batch_vars, key_vars,
                 adapter_vars, item_vars, fetch_vars, single_vars, http_vars>>

\* cache.py 77-88: set(key, value, ttl_seconds). False without a client; else
\* setex of the encoded value, True, or False when the store call raises
CacheSet(key, value, ttl_seconds) ==
    /\ IF cache_client = "none"
       THEN /\ cache_call' = CacheCall("set", FALSE, FALSE, FALSE, "returned", Some(FALSE))
            /\ UNCHANGED store
       ELSE IF ~redis_up
       THEN /\ cache_call' = CacheCall("set", TRUE, TRUE, TRUE, "returned", Some(FALSE))
            /\ UNCHANGED store
       ELSE /\ store' = [store EXCEPT ![key] = Some([data |-> Dumps(value),
                                                      ttl |-> ttl_seconds])]
            /\ cache_call' = CacheCall("set", TRUE, TRUE, FALSE, "returned", Some(TRUE))
    /\ UNCHANGED <<redis_url, redis_up, cache_client>>
    /\ UNCHANGED <<registry_vars, batch_vars, key_vars,
                 adapter_vars, item_vars, fetch_vars, single_vars, http_vars>>

\* cache.py 90-100: delete(key). False without a client; else the key deleted,
\* True, or False when the store call raises
CacheDelete(key) ==
    /\ IF cache_client = "none"
       THEN /\ cache_call' = CacheCall("delete", FALSE, FALSE, FALSE, "returned", Some(FALSE))
            /\ UNCHANGED store
       ELSE IF ~redis_up
       THEN /\ cache_call' = CacheCall("delete", TRUE, TRUE, TRUE, "returned", Some(FALSE))
            /\ UNCHANGED store
       ELSE /\ store' = [store EXCEPT ![key] = None]
            /\ cache_call' = CacheCall("delete", TRUE, TRUE, FALSE, "returned", Some(TRUE))
    /\ UNCHANGED <<redis_url, redis_up, cache_client>>
    /\ UNCHANGED <<registry_vars, batch_vars, key_vars,
                 adapter_vars, item_vars, fetch_vars, single_vars, http_vars>>

\* the store becomes unreachable, or reachable again
RedisChanges ==
    /\ redis_up' = ~redis_up
    /\ UNCHANGED <<redis_url, cache_client, store, cache_call>>
    /\ UNCHANGED <<registry_vars, batch_vars, key_vars,
                 adapter_vars, item_vars, fetch_vars, single_vars, http_vars>>

\* another writer leaves data that is not JSON under a key
ForeignWrite(key) ==
    /\ redis_up
    /\ store' = [store EXCEPT ![key] = Some([data |-> Garbage, ttl |-> cache_search_ttl])]
    /\ UNCHANGED <<redis_url, redis_up, cache_client, cache_call>>
    /\ UNCHANGED <<registry_vars, batch_vars, key_vars,
                 adapter_vars, item_vars, fetch_vars, single_vars, http_vars>>

\* cache.py 18-19, 141: the CacheService as constructed, over an empty store
CacheAtRest ==
    /\ cache_client = "none"
    /\ store = [k \in CacheKeys |-> None]
    /\ cache_call = CacheCall("init", FALSE, FALSE, FALSE, "returned", None)

----------------------------------------------------------------------------
(* scrapers/base.py and the three API adapters: one item of a provider's      *)
(* result array, parsed and filtered.  Ratings are in tenths (4.5 is 45), a   *)
(* name is the sequence of its characters' ASCII codes.                       *)

\* the adapters registered at startup (main.py 27-29), by platform_name
AdapterNames == {"booking", "hotels_com", "priceline"}

\* truthiness of an Optional number: None and 0 are falsy
TruthyNumber(x) == x # None /\ x[1] # 0

\* round(num / den, 0) for den > 0, as Python rounds a value it holds exactly:
\* to the nearest integer, a tie to the even one
RoundHalfEven(num, den) ==
    LET q == num \div den
        r == num % den
    IN  IF 2 * r < den THEN q
        ELSE IF 2 * r > den THEN q + 1
        ELSE IF q % 2 = 0 THEN q ELSE q + 1

\* base.py 99-106: _normalize_rating(rating, max_rating): None stays None, else
\* round((rating / max_rating) * 5.0, 1); rating and result in tenths
_normalize_rating(rating, max_rating) ==
    IF rating = None THEN None
    ELSE Some(RoundHalfEven(rating[1] * 5, max_rating))

\* booking_api.py 164, hotels_api.py 193, priceline_api.py 198: the hotel id as a
\* string.  A missing id is ""; a null id is "None" after str(), but "" in the
\* Priceline adapter, which applies `or ""` before str()
HotelId(name, hotel) ==
    IF hotel.id = "missing" THEN ""
    ELSE IF hotel.id = "null" THEN (IF name = "priceline" THEN "" ELSE "None")
    ELSE hotel.id

\* booking_api.py 165, hotels_api.py 194, priceline_api.py 199: the hotel name;
\* a missing or null name is falsy
HotelName(hotel) == IF hotel.name = None THEN <<>> ELSE hotel.name[1]

\* booking_api.py 171-181, hotels_api.py 200-215, priceline_api.py 205-215: the
\* first truthy price among the candidate fields, else None
HotelPrice(hotel) == IF TruthyNumber(hotel.price) THEN hotel.price ELSE None

\* booking_api.py 184-187, hotels_api.py 218-224, priceline_api.py 218-228: a
\* truthy guest score is normalised from the 0-10 scale; the Priceline adapter
\* falls back to the star rating, taken as it is, when that gave no truthy rating
HotelRating(name, hotel) ==
    LET rating == IF TruthyNumber(hotel.score)
                  THEN _normalize_rating(hotel.score, 10)
                  ELSE None
    IN  IF name = "priceline" /\ ~TruthyNumber(rating) /\ TruthyNumber(hotel.stars)
        THEN hotel.stars
        ELSE rating

\* booking_api.py 155-224, hotels_api.py 190-267, priceline_api.py 195-274:
\* _parse_hotel.  None without an id or a name; None when building the
\* HotelResult raises, as it does without a price (schemas.py 38: required).
\* The Hotels.com adapter passes no cancellation_policy
_parse_hotel(name, hotel) ==
    IF HotelId(name, hotel) = "" \/ HotelName(hotel) = <<>> THEN None
    ELSE IF HotelPrice(hotel) = None THEN None
    ELSE Some([platform |-> name, hotel_id |-> HotelId(name, hotel),
               name |-> HotelName(hotel), price |-> HotelPrice(hotel)[1],
               rating |-> HotelRating(name, hotel),
               cancellation_policy |->
                   IF name # "hotels_com" /\ hotel.free
                   THEN Some("Free cancellation") ELSE None])

\* hotels_api.py 269-279: the walk over price.options raises on options that
\* are not a list of dicts; booking_api.py 226-228 and priceline_api.py 276-278
\* only read flags of the item
HasFreeCancellationRaises(name, hotel) == name = "hotels_com" /\ ~hotel.options_ok

_has_free_cancellation(name, hotel) == hotel.free

\* needle in hay, for strings
Contains(hay, needle) ==
    \E i \in 0..(Len(hay) - Len(needle)) : SubSeq(hay, i + 1, i + Len(needle)) = needle

\* booking_api.py 126-136, hotels_api.py 161-171, priceline_api.py 166-176: the
\* filters on a parsed result, in order; each is skipped when its criterion or
\* the field it reads is falsy
FilteredOut(name, criteria, hotel, result) ==
    IF TruthyNumber(criteria.max_price) /\ result.price # 0
       /\ result.price > criteria.max_price[1]
    THEN "filtered"
    ELSE IF TruthyNumber(criteria.min_rating) /\ TruthyNumber(result.rating)
            /\ result.rating[1] < criteria.min_rating[1]
    THEN "filtered"
    ELSE IF criteria.free_cancellation /\ HasFreeCancellationRaises(name, hotel)
    THEN "raised"
    ELSE IF criteria.free_cancellation /\ ~_has_free_cancellation(name, hotel)
    THEN "filtered"
    ELSE IF criteria.hotel_name # None /\ criteria.hotel_name[1] # <<>>
            /\ ~Contains(Lower(result.name), Lower(criteria.hotel_name[1]))
    THEN "filtered"
    ELSE "accepted"

\* booking_api.py 123-140, hotels_api.py 158-175, priceline_api.py 163-180: the
\* body of the loop over the result array, for one item: "accepted" appends the
\* parsed result, "dropped" and "filtered" continue, "raised" is what the
\* try/except around the body catches
ItemOutcome(name, criteria, hotel) ==
    IF _parse_hotel(name, hotel) = None THEN "dropped"
    ELSE FilteredOut(name, criteria, hotel, _parse_hotel(name, hotel)[1])

----------------------------------------------------------------------------
(* The API adapters: search(), with destination resolution over the cache.   *)
(* One adapter serves one search() call at a time.                           *)

\* the platform names "hotels_com" and "priceline" (hotels_api.py 22,
\* priceline_api.py 22)
HotelsComStr == <<104, 111, 116, 101, 108, 115, 95, 99, 111, 109>>

PricelineStr == <<112, 114, 105, 99, 101, 108, 105, 110, 101>>

PlatformStr(name) ==
    IF name = "booking" THEN BookingStr
    ELSE IF name = "hotels_com" THEN HotelsComStr
    ELSE PricelineStr

MaxDays == 1            \* the time covered, in destination TTLs
MaxItems == 2           \* longest result array of a search response

\* the cities searched: "A", "a" and "-"
AdapterCities == {<<65>>, <<97>>, <<45>>}

\* the keys of the store here: the keys an adapter's platform and these cities
\* give, lower-cased (as get_destination and set_destination build them) or not
AdapterKeys(name) ==
    {DestinationKey(PlatformStr(name), c) : c \in AdapterCities}
    \cup {_make_key(DestPrefix, <<PlatformStr(name), c>>) : c \in AdapterCities}

\* the instants the clock takes: around each multiple of the destination TTL
Instants ==
    {t \in {k * cache_destination_ttl + e : k \in 0..MaxDays, e \in {-1, 0}} : t >= 0}

\* destination identifiers the providers know
DestIds == {"d1", "d2"}

\* what the provider's location endpoint does with a lookup: the request fails
\* in transport, comes back with an error status, with no location, or with a
\* first location, which may lack an identifier
LookupResponses ==
    [kind : {"transport", "status", "no_match"}, id : {None}]
    \cup [kind : {"match"}, id : {None} \cup {Some(d) : d \in DestIds}]

\* the record resolution builds of a location: booking_api.py 61 keeps dest_id
\* as sent, hotels_api.py 63 region_id as sent, priceline_api.py 64 and 80
\* str(location_id), which turns a missing identifier into "None"
DestRecord(name, id) ==
    [id |-> IF name = "priceline" /\ id = None THEN Some("None") ELSE id]

\* a variant of the lookup without the try/except around the request
LookupResultUnguarded(name, resp) ==
    IF resp.kind = "match"
    THEN [raised |-> FALSE, ret |-> Some(DestRecord(name, resp.id)),
          write |-> Some(DestRecord(name, resp.id))]
    ELSE [raised |-> resp.kind \in {"transport", "status"},
          ret |-> None, write |-> None]

\* booking_api.py 46-71, hotels_api.py 50-75, priceline_api.py 46-93: what the
\* handling of the lookup's response comes to: the value returned (None is
\* absent; the Booking adapter's (None, None)), the record passed to
\* set_destination, and whether an exception leaves _search_destination
LookupResult(name, resp) ==
    IF resp.kind = "match"
    THEN [raised |-> FALSE, ret |-> Some(DestRecord(name, resp.id)),
          write |-> Some(DestRecord(name, resp.id))]
    ELSE [raised |-> FALSE, ret |-> None, write |-> None]

\* booking_api.py 88-91: `if not dest_id`; hotels_api.py 92-95 and
\* priceline_api.py 110-113: `if not dest_info`, a dict, truthy when present
Proceeds(name, ret) == ret # None /\ (name = "booking" => ret[1].id # None)

\* cache.py 61-75: the CacheService call a get(key) makes now
GetCall(key) ==
    IF cache_client = "none"
    THEN CacheCall("get", FALSE, FALSE, FALSE, "returned", None)
    ELSE IF ~redis_up \/ (store[key] # None /\ ~IsJson(store[key][1].data))
    THEN CacheCall("get", TRUE, TRUE, TRUE, "returned", None)
    ELSE IF store[key] # None
    THEN CacheCall("get", TRUE, TRUE, FALSE, "returned", Some(Loads(store[key][1].data)))
    ELSE CacheCall("get", TRUE, TRUE, FALSE, "returned", None)

\* cache.py 77-88: the CacheService call a set(key, ...) makes now
SetCall(key) ==
    IF cache_client = "none"
    THEN CacheCall("set", FALSE, FALSE, FALSE, "returned", Some(FALSE))
    ELSE IF ~redis_up
    THEN CacheCall("set", TRUE, TRUE, TRUE, "returned", Some(FALSE))
    ELSE CacheCall("set", TRUE, TRUE, FALSE, "returned", Some(TRUE))

\* a variant of get_destination that builds the key of the city as passed
GetDestinationCaseSensitive(name, city) ==
    GetCall(_make_key(DestPrefix, <<PlatformStr(name), city>>))

\* cache.py 104-107: get_destination(platform, city)
get_destination(name, city) == GetCall(DestinationKey(PlatformStr(name), city))

\* the search criteria an adapter is called with (base.py 70-80)
Criteria(hotel_name, max_price, min_rating, free_cancellation) ==
    [hotel_name |-> hotel_name, max_price |-> max_price, min_rating |-> min_rating,
     free_cancellation |-> free_cancellation]

\* one item of a provider's result array, by the fields the adapters read
Hotel(id, name, price, score, stars, free, options_ok) ==
    [id |-> id, name |-> name, price |-> price, score |-> score, stars |-> stars,
     free |-> free, options_ok |-> options_ok]

\* the criteria of the searches made here: with and without free cancellation
AdapterCriteria == {Criteria(None, None, None, f) : f \in BOOLEAN}

\* the items of the responses here: a hotel "H" with free cancellation and a
\* hotel "G" whose cancellation options are malformed
AdapterItems ==
    {Hotel("h1", Some(<<72>>), Some(50), Some(80), None, TRUE, TRUE),
     Hotel("h2", Some(<<71>>), Some(60), None, None, TRUE, FALSE)}

\* what the provider's search endpoint does with a request: an error status,
\* a transport error, or a body with a result array
SearchResponses ==
    [kind : {"status_429", "status_403", "transport"}, items : {<<>>}]
    \cup [kind : {"body"}, items : SeqsUpTo(AdapterItems, MaxItems)]

RECURSIVE Collect(_, _, _)
\* booking_api.py 122-140, hotels_api.py 157-175, priceline_api.py 162-180: the
\* loop over the result array: the parsed result of each accepted item, in
\* order; an item whose processing raises is skipped like a dropped one
Collect(name, criteria, hotels) ==
    IF hotels = <<>> THEN <<>>
    ELSE (IF ItemOutcome(name, criteria, Head(hotels)) = "accepted"
          THEN <<_parse_hotel(name, Head(hotels))[1]>> ELSE <<>>)
         \o Collect(name, criteria, Tail(hotels))

\* a variant of the search without the try/except around the request
SearchResultUnguarded(name, criteria, resp) ==
    IF resp.kind = "body"
    THEN [raised |-> FALSE, results |-> Collect(name, criteria, resp.items)]
    ELSE [raised |-> TRUE, results |-> <<>>]

\* booking_api.py 113-153, hotels_api.py 117-188, priceline_api.py 133-193:
\* what the handling of the search response comes to: the list returned and
\* whether an exception leaves search()
SearchResult(name, criteria, resp) ==
    IF resp.kind = "body"
    THEN [raised |-> FALSE, results |-> Collect(name, criteria, resp.items)]
    ELSE [raised |-> FALSE, results |-> <<>>]

\* no search() call in flight
IdleCall ==
    [pc |-> "idle", city |-> <<>>, criteria |-> Criteria(None, None, None, FALSE),
     start |-> 0, prior |-> None, via |-> "none", ret |-> None, lookup |-> "none",
     search |-> "none",
     items |-> <<>>, results |-> <<>>, trace |-> <<>>]

\* a variant of search() that paces and requests whatever resolution returned
AfterResolutionUnchecked(name, c) == [c EXCEPT !.pc = "pacing", !.trace = Append(@, "sleep")]

\* booking_api.py 88-94, hotels_api.py 92-100, priceline_api.py 110-118: search()
\* once resolution has returned: without a destination it returns the empty
\* list, else it starts the pacing delay
AfterResolution(name, c) ==
    IF Proceeds(name, c.ret)
    THEN [c EXCEPT !.pc = "pacing", !.trace = Append(@, "sleep")]
    ELSE [c EXCEPT !.pc = "returned"]

\* booking_api.py 85-88 with 33-44 (hotels_api.py 89-92, 33-48; priceline_api.py
\* 107-110, 33-44): search() is called and resolution asks the cache; a hit
\* ends resolution, a miss sends the location lookup to the provider
SearchStart(city, criteria) ==
    /\ call.pc = "idle"
    /\ LET cached == get_destination(adapter, city)
           c == [IdleCall EXCEPT !.city = city, !.criteria = criteria, !.start = now,
                                 !.prior = lookups[Lower(city)],
                                 !.trace = <<"cache_get">>]
       IN  /\ call' = IF cached.result # None
                      THEN AfterResolution(adapter,
                               [c EXCEPT !.via = "cache", !.ret = cached.result,
                                         !.trace = Append(@, "resolved")])
                      ELSE [c EXCEPT !.pc = "lookup",
                                     !.trace = Append(@, "lookup_request")]
    /\ UNCHANGED <<adapter, now, expires_at, lookups>>
    /\ UNCHANGED cache_vars
    /\ UNCHANGED <<registry_vars, batch_vars, key_vars, item_vars, fetch_vars, single_vars,
                   http_vars>>

\* booking_api.py 46-71 and 88-94 (hotels_api.py 50-75, priceline_api.py 46-93):
\* the lookup ends; a location found is cached under the destination TTL and
\* returned, anything else returns absent; search() goes on from there
LookupResponds(resp) ==
    /\ call.pc = "lookup"
    /\ LET r == LookupResult(adapter, resp)
           key == DestinationKey(PlatformStr(adapter), call.city)
           stored == r.write # None /\ SetCall(key).result = Some(TRUE)
       IN  /\ store' = IF stored
                       THEN [store EXCEPT ![key] = Some([data |-> Dumps(r.write[1]),
                                                         ttl |-> cache_destination_ttl])]
                       ELSE store
           /\ expires_at' = IF stored
                            THEN [expires_at EXCEPT ![key] = now + cache_destination_ttl]
                            ELSE expires_at
           /\ lookups' = IF r.write # None
                         THEN [lookups EXCEPT ![Lower(call.city)] =
                                  Some([city |-> call.city, id |-> r.write[1].id,
                                        at |-> now, intact |-> stored])]
                         ELSE lookups
           /\ call' = IF r.raised
                      THEN [call EXCEPT !.pc = "raised", !.lookup = resp.kind]
                      ELSE AfterResolution(adapter,
                               [call EXCEPT !.via = "lookup", !.ret = r.ret,
                                            !.lookup = resp.kind,
                                            !.trace = @ \o (IF r.write # None
                                                            THEN <<"cache_set">>
                                                            ELSE <<>>)
                                                        \o <<"resolved">>])
    /\ UNCHANGED <<adapter, now>>
    /\ UNCHANGED <<redis_url, redis_up, cache_client, cache_call>>
    /\ UNCHANGED <<registry_vars, batch_vars, key_vars, item_vars, fetch_vars, single_vars,
                   http_vars>>

\* booking_api.py 94-115 (hotels_api.py 100-119, priceline_api.py 118-135): the
\* pacing delay has elapsed and the search request goes to the provider
SearchRequest ==
    /\ call.pc = "pacing"
    /\ call' = [call EXCEPT !.pc = "searching", !.trace = Append(@, "search_request")]
    /\ UNCHANGED <<adapter, now, expires_at, lookups>>
    /\ UNCHANGED <<registry_vars, batch_vars, cache_vars, key_vars, item_vars, fetch_vars,
                   single_vars, http_vars>>

\* booking_api.py 113-153 (hotels_api.py 117-188, priceline_api.py 133-193): the
\* search request ends and search() returns
SearchResponds(resp) ==
    /\ call.pc = "searching"
    /\ LET r == SearchResult(adapter, call.criteria, resp)
       IN  call' = [call EXCEPT !.pc = IF r.raised THEN "raised" ELSE "returned",
                                !.search = resp.kind, !.items = resp.items,
                                !.results = r.results]
    /\ UNCHANGED <<adapter, now, expires_at, lookups>>
    /\ UNCHANGED <<registry_vars, batch_vars, cache_vars, key_vars, item_vars, fetch_vars,
                   single_vars, http_vars>>

\* the caller has the outcome of search(); the adapter is free for the next call
CallEnds ==
    /\ call.pc \in {"returned", "raised"}
    /\ call' = IdleCall
    /\ UNCHANGED <<adapter, now, expires_at, lookups>>
    /\ UNCHANGED <<registry_vars, batch_vars, cache_vars, key_vars, item_vars, fetch_vars,
                   single_vars, http_vars>>

\* time passes; the store drops the records whose TTL has run out.  Taken
\* between calls and while the lookup is in flight: the later steps of a call
\* read neither the clock nor the store
Advance(t) ==
    /\ call.pc \in {"idle", "lookup"}
    /\ t > now
    /\ now' = t
    /\ store' = [k \in DOMAIN store |->
                    IF store[k] # None /\ expires_at[k] <= t THEN None ELSE store[k]]
    /\ expires_at' = [k \in DOMAIN store |->
                         IF store[k] # None /\ expires_at[k] <= t THEN 0 ELSE expires_at[k]]
    /\ UNCHANGED <<adapter, lookups, call>>
    /\ UNCHANGED <<redis_url, redis_up, cache_client, cache_call>>
    /\ UNCHANGED <<registry_vars, batch_vars, key_vars, item_vars, fetch_vars, single_vars,
                   http_vars>>

\* the store becomes unreachable, or reachable again; no record written before
\* has been within reach without a break since.  Taken between calls and while
\* the lookup is in flight
StoreOutage ==
    /\ call.pc \in {"idle", "lookup"}
    /\ redis_up' = ~redis_up
    /\ lookups' = [c \in DOMAIN lookups |->
                       IF lookups[c] = None THEN None
                       ELSE Some([lookups[c][1] EXCEPT !.intact = FALSE])]
    /\ UNCHANGED <<adapter, now, expires_at, call>>
    /\ UNCHANGED <<redis_url, cache_client, store, cache_call>>
    /\ UNCHANGED <<registry_vars, batch_vars, key_vars, item_vars, fetch_vars, single_vars,
                   http_vars>>

\* the result items processed on their own: with an id or a null one, named
\* "Ab" or nameless, priced or not, with guest scores on and beyond the 0-10
\* scale (0, 8.0, 12.0), with star ratings (4.0, 7.0) or none
ItemHotels ==
    {Hotel(id, name, price, score, stars, free, options_ok) :
        id \in {"h1", "null"}, name \in {None, Some(<<65, 98>>)},
        price \in {None, Some(50), Some(200)},
        score \in {None, Some(0), Some(80), Some(120)},
        stars \in {None, Some(40), Some(70)},
        free \in BOOLEAN, options_ok \in BOOLEAN}

\* the criteria they are filtered by: hotel_name None, "B" or "x"; max_price
\* None, 0 or 100; min_rating None, 0 or 3.0 (schemas.py 15-26)
ItemCriteria ==
    {Criteria(hotel_name, max_price, min_rating, free_cancellation) :
        hotel_name \in {None, Some(<<66>>), Some(<<120>>)},
        max_price \in {None, Some(0), Some(100)},
        min_rating \in {None, Some(0), Some(30)},
        free_cancellation \in BOOLEAN}

\* booking_api.py 122-140, hotels_api.py 157-175, priceline_api.py 162-180: an
\* adapter runs its loop over a result array
ProcessItems ==
    /\ item_in # None
    /\ item_out = None
    /\ item_out' = Some(Collect(item_in[1].name, item_in[1].criteria, item_in[1].hotels))
    /\ UNCHANGED item_in
    /\ UNCHANGED <<registry_vars, batch_vars, cache_vars, key_vars, adapter_vars, fetch_vars,
                   single_vars, http_vars>>

\* no adapter call under way, at time 0
AdapterAtRest ==
    /\ adapter = "booking"
    /\ now = 0
    /\ expires_at = [k \in CacheKeys |-> 0]
    /\ lookups = [c \in {Lower(city) : city \in AdapterCities} |-> None]
    /\ call = IdleCall

----------------------------------------------------------------------------
(* scrapers/base.py: _fetch_page under tenacity's @retry *)

\* base.py 54: stop_after_attempt(3)
stop_after_attempt == 3

\* the pages fetched and the bodies the provider serves
FetchUrls == {"u1", "u2"}

FetchBodies == {"b1", "b2"}

\* what an attempt raises: client.get a transport error (base.py 65),
\* raise_for_status an HTTPStatusError (base.py 66)
AttemptErrors == {"ConnectError", "HTTPStatusError_429", "HTTPStatusError_500"}

\* base.py 55: wait_exponential(multiplier=1, min=2, max=10)
wait_multiplier == 1

wait_min == 2

wait_max == 10

RECURSIVE Pow2(_)
Pow2(n) == IF n = 0 THEN 1 ELSE 2 * Pow2(n - 1)

\* tenacity's wait_exponential after the attempt numbered attempt_number:
\* max(max(0, min), min(multiplier * 2 ** (attempt_number - 1), max))
wait_exponential(attempt_number) ==
    LET result == wait_multiplier * Pow2(attempt_number - 1)
        capped == IF result < wait_max THEN result ELSE wait_max
    IN  IF capped > wait_min THEN capped ELSE wait_min

\* no _fetch_page call under way; the scraper has no HTTP client yet (base.py 25)
IdleFetch ==
    [pc |-> "idle", url |-> "", client |-> "none", attempt_number |-> 0,
     errors |-> <<>>, trace |-> <<>>, waits |-> <<>>, outcome |-> None]

FetchAtRest == fetch = IdleFetch

\* what leaves _fetch_page once the attempts are used up: @retry is given no
\* reraise=True (base.py 53-56), so tenacity raises its RetryError, which holds
\* the last attempt and has that attempt's exception as its cause
Exhausted(errs) ==
    [kind |-> "raised", type |-> "RetryError", cause |-> errs[Len(errs)]]

\* base.py 57-62: _fetch_page(url) is called; the first attempt gets the client
\* and starts the pacing delay
FetchPage(url) ==
    /\ fetch.pc = "idle"
    /\ fetch' = [IdleFetch EXCEPT !.pc = "pacing", !.url = url, !.client = "open",
                                  !.attempt_number = 1, !.trace = <<"sleep">>]
    /\ UNCHANGED <<registry_vars, batch_vars, cache_vars, key_vars, adapter_vars, item_vars,
                   single_vars, http_vars>>

\* base.py 62-65: the pacing delay has elapsed and the attempt sends its request
FetchRequest ==
    /\ fetch.pc = "pacing"
    /\ fetch' = [fetch EXCEPT !.pc = "requesting", !.trace = Append(@, "request")]
    /\ UNCHANGED <<registry_vars, batch_vars, cache_vars, key_vars, adapter_vars, item_vars,
                   single_vars, http_vars>>

\* base.py 65-67: the response has a success status; _fetch_page returns its text
AttemptSucceeds(body) ==
    /\ fetch.pc = "requesting"
    /\ fetch' = [fetch EXCEPT !.pc = "returned",
                              !.outcome = Some([kind |-> "returned", body |-> body])]
    /\ UNCHANGED <<registry_vars, batch_vars, cache_vars, key_vars, adapter_vars, item_vars,
                   single_vars, http_vars>>

\* base.py 53-56, 65-66: the attempt raises; @retry stops after the third
\* attempt and else starts the backoff wait
AttemptFails(error) ==
    /\ fetch.pc = "requesting"
    /\ IF fetch.attempt_number >= stop_after_attempt
       THEN fetch' = [fetch EXCEPT !.pc = "raised", !.errors = Append(@, error),
                                  !.outcome = Some(Exhausted(Append(fetch.errors, error)))]
       ELSE fetch' = [fetch EXCEPT !.pc = "backoff", !.errors = Append(@, error),
                                  !.trace = Append(@, "wait"),
                                  !.waits = Append(@, wait_exponential(fetch.attempt_number))]
    /\ UNCHANGED <<registry_vars, batch_vars, cache_vars, key_vars, adapter_vars, item_vars,
                   single_vars, http_vars>>

\* a variant in which only the first attempt sleeps the pacing delay
RetryPaceOnce ==
    /\ fetch.pc = "backoff"
    /\ fetch' = [fetch EXCEPT !.pc = "requesting", !.attempt_number = @ + 1,
                              !.trace = Append(@, "request")]
    /\ UNCHANGED <<registry_vars, batch_vars, cache_vars, key_vars, adapter_vars, item_vars,
                   single_vars, http_vars>>

\* base.py 53-62: the backoff wait is over; @retry calls _fetch_page again, which
\* gets the client and starts the pacing delay
Retry ==
    /\ fetch.pc = "backoff"
    /\ fetch' = [fetch EXCEPT !.pc = "pacing", !.attempt_number = @ + 1,
                              !.trace = Append(@, "sleep")]
    /\ UNCHANGED <<registry_vars, batch_vars, cache_vars, key_vars, adapter_vars, item_vars,
                   single_vars, http_vars>>

\* the caller has the outcome of _fetch_page; the scraper keeps its client
FetchEnds ==
    /\ fetch.pc \in {"returned", "raised"}
    /\ fetch' = [IdleFetch EXCEPT !.client = "open"]
    /\ UNCHANGED <<registry_vars, batch_vars, cache_vars, key_vars, adapter_vars, item_vars,
                   single_vars, http_vars>>

----------------------------------------------------------------------------
(* main.py: search_hotels, the multi-platform search *)

\* HotelResult, reduced to the fields the orchestrator reads or passes on
HotelResult(platform, hotel_id, price) ==
    [platform |-> platform, hotel_id |-> hotel_id, price |-> price]

\* the result lists scraper.search may return for the adapter named platform
AdapterResults(platform) ==
    {[k \in DOMAIN ps |-> HotelResult(platform, k, ps[k])] :
        ps \in SeqsUpTo({None} \cup {Some(p) : p \in PriceValues}, MaxHotels)}

\* the platforms field of a SearchRequest: absent, or a list of names
RequestPlatforms == {None} \cup {Some(l) : l \in SeqsUpTo(RequestNames, MaxPlatforms)}

\* Python truthiness of request.platforms: neither None nor the empty list
Truthy(platforms) == platforms # None /\ platforms[1] # <<>>

\* [scraper_registry.get(p) for p in request.platforms if scraper_registry.get(p)]
KnownScrapers(names) ==
    LET known == SelectSeq(names, LAMBDA p : get(p) # None)
    IN  [i \in DOMAIN known |-> get(known[i])[1]]

\* a variant that ignores the platform filter
SelectScrapersUnfiltered(platforms) == get_all

\* main.py 72-85: the scrapers a request selects
SelectScrapers(platforms) ==
    IF Truthy(platforms) THEN KnownScrapers(platforms[1]) ELSE get_all

\* the sort key of main.py 121: (x.price is None, x.price or Decimal("999999"));
\* `or` takes the sentinel for every falsy price, None and zero alike
SortSentinel == 999999

SortKey(x) ==
    <<IF x.price = None THEN 1 ELSE 0,
      IF x.price = None \/ x.price[1] = 0 THEN SortSentinel ELSE x.price[1]>>

\* Python's order on the key tuples: False < True, then the second component
KeyLess(a, b) == a[1] < b[1] \/ (a[1] = b[1] /\ a[2] < b[2])

\* x put into the sorted list s after every element whose key is not greater
Insert(s, x) ==
    LET later == {i \in DOMAIN s : KeyLess(SortKey(x), SortKey(s[i]))}
        at == IF later = {} THEN Len(s) + 1
              ELSE CHOOSE i \in later : \A j \in later : i <= j
    IN  SubSeq(s, 1, at - 1) \o <<x>> \o SubSeq(s, at, Len(s))

RECURSIVE Sort(_)
\* list.sort(key=...): stable, ascending in the key
Sort(s) ==
    IF s = <<>> THEN <<>>
    ELSE Insert(Sort(SubSeq(s, 1, Len(s) - 1)), s[Len(s)])

RECURSIVE Extend(_)
\* main.py 117-118: all_results extended by every task's list, in task order
Extend(lists) ==
    IF lists = <<>> THEN <<>>
    ELSE lists[1][1] \o Extend(Tail(lists))

\* main.py 110: f"{scraper.platform_name}: {str(e)}"
ErrorEntry(platform, message) == <<platform, ": ", message>>

\* main.py 126: the success flag
Success(errs, all_results) == Len(errs) = 0 \/ Len(all_results) > 0

\* a variant that reports the first error only
ErrorMessageFirstOnly(errs) == IF errs # <<>> THEN Some(errs[1]) ELSE None

\* main.py 130: "; ".join(errors) if errors else None
ErrorMessage(errs) == IF errs # <<>> THEN Some(Join("; ", errs)) ELSE None

\* main.py 125-131: the SearchResponse
SearchResponse(errs, lists, searched) ==
    LET all_results == Sort(Extend(lists))
    IN  [success |-> Success(errs, all_results),
         hotels |-> all_results,
         total_results |-> Len(all_results),
         platforms_searched |-> searched,
         error_message |-> ErrorMessage(errs)]

TaskDone(i) == task[i].pc \in {"returned", "raised"}

InFlight == {i \in DOMAIN task : task[i].pc = "running"}

\* main.py 60-115, to the await of gather: select the scrapers, reject a filter
\* that names no known platform, build the semaphore, create the tasks
SearchHotels(platforms) ==
    /\ phase = "idle"
    /\ request' = [platforms |-> platforms]
    /\ LET sel == SelectScrapers(platforms)
           n == Len(sel)
       IN  IF Truthy(platforms) /\ sel = <<>>
           THEN /\ phase' = "rejected"
                /\ UNCHANGED <<scrapers, platforms_searched, semaphore, task,
                               results_lists, errors>>
           ELSE /\ scrapers' = sel
                /\ platforms_searched' = [i \in 1..n |-> sel[i].platform_name]
                /\ errors' = <<>>
                /\ IF max_concurrent_requests < 0
                   THEN /\ phase' = "failed"
                        /\ UNCHANGED <<semaphore, task, results_lists>>
                   ELSE /\ phase' = "gathering"
                        /\ semaphore' = max_concurrent_requests
                        /\ task' = [i \in 1..n |->
                                       [pc |-> "pending", returned |-> None, raised |-> None]]
                        /\ results_lists' = [i \in 1..n |-> None]
    /\ UNCHANGED <<max_concurrent_requests, search_calls, response>>
    /\ UNCHANGED <<registry_vars, cache_vars, key_vars,
                 adapter_vars, item_vars, fetch_vars, single_vars, http_vars>>

\* a variant in which a task calls scraper.search without waiting at the semaphore
TaskEnterNoGate(i) ==
    /\ phase = "gathering"
    /\ i \in DOMAIN task
    /\ task[i].pc = "pending"
    /\ semaphore' = semaphore - 1
    /\ task' = [task EXCEPT ![i].pc = "running"]
    /\ search_calls' = Append(search_calls, scrapers[i].platform_name)
    /\ UNCHANGED <<max_concurrent_requests, request, phase, scrapers, platforms_searched,
                   results_lists, errors, response>>
    /\ UNCHANGED <<registry_vars, cache_vars, key_vars,
                 adapter_vars, item_vars, fetch_vars, single_vars, http_vars>>

\* main.py 95-97: a task passes `async with semaphore` and calls scraper.search;
\* the tasks reach the semaphore in dispatch order and waiters are woken first-in first-out
TaskEnter(i) ==
    /\ phase = "gathering"
    /\ i \in DOMAIN task
    /\ task[i].pc = "pending"
    /\ \A j \in DOMAIN task : j < i => task[j].pc # "pending"
    /\ semaphore > 0
    /\ semaphore' = semaphore - 1
    /\ task' = [task EXCEPT ![i].pc = "running"]
    /\ search_calls' = Append(search_calls, scrapers[i].platform_name)
    /\ UNCHANGED <<max_concurrent_requests, request, phase, scrapers, platforms_searched,
                   results_lists, errors, response>>
    /\ UNCHANGED <<registry_vars, cache_vars, key_vars,
                 adapter_vars, item_vars, fetch_vars, single_vars, http_vars>>

\* a variant that collects the lists in the order the tasks complete
TaskReturnAsCompleted(i, results) ==
    /\ phase = "gathering"
    /\ i \in DOMAIN task
    /\ task[i].pc = "running"
    /\ task' = [task EXCEPT ![i].pc = "returned", ![i].returned = Some(results)]
    /\ LET free == {k \in DOMAIN results_lists : results_lists[k] = None}
           slot == CHOOSE k \in free : \A l \in free : k <= l
       IN  results_lists' = [results_lists EXCEPT ![slot] = Some(results)]
    /\ semaphore' = semaphore + 1
    /\ UNCHANGED <<max_concurrent_requests, request, phase, scrapers, platforms_searched,
                   errors, search_calls, response>>
    /\ UNCHANGED <<registry_vars, cache_vars, key_vars,
                 adapter_vars, item_vars, fetch_vars, single_vars, http_vars>>

\* main.py 97-107: scraper.search returned; the task returns its list and leaves the gate
TaskReturn(i, results) ==
    /\ phase = "gathering"
    /\ i \in DOMAIN task
    /\ task[i].pc = "running"
    /\ task' = [task EXCEPT ![i].pc = "returned", ![i].returned = Some(results)]
    /\ results_lists' = [results_lists EXCEPT ![i] = Some(results)]
    /\ semaphore' = semaphore + 1
    /\ UNCHANGED <<max_concurrent_requests, request, phase, scrapers, platforms_searched,
                   errors, search_calls, response>>
    /\ UNCHANGED <<registry_vars, cache_vars, key_vars,
                 adapter_vars, item_vars, fetch_vars, single_vars, http_vars>>

\* a variant without the except clause: the exception leaves run_scraper and
\* gather hands it to search_hotels, which fails while the other tasks go on
TaskRaiseUncaught(i, message) ==
    /\ phase = "gathering"
    /\ i \in DOMAIN task
    /\ task[i].pc = "running"
    /\ task' = [task EXCEPT ![i].pc = "raised", ![i].raised = Some(message)]
    /\ semaphore' = semaphore + 1
    /\ phase' = "failed"
    /\ UNCHANGED <<max_concurrent_requests, request, scrapers, platforms_searched,
                   results_lists, errors, search_calls, response>>
    /\ UNCHANGED <<registry_vars, cache_vars, key_vars,
                 adapter_vars, item_vars, fetch_vars, single_vars, http_vars>>

\* main.py 108-111: scraper.search raised; the task records the error, returns []
\* and leaves the gate
TaskRaise(i, message) ==
    /\ phase = "gathering"
    /\ i \in DOMAIN task
    /\ task[i].pc = "running"
    /\ task' = [task EXCEPT ![i].pc = "raised", ![i].raised = Some(message)]
    /\ errors' = Append(errors, ErrorEntry(scrapers[i].platform_name, message))
    /\ results_lists' = [results_lists EXCEPT ![i] = Some(<<>>)]
    /\ semaphore' = semaphore + 1
    /\ UNCHANGED <<max_concurrent_requests, request, phase, scrapers, platforms_searched,
                   search_calls, response>>
    /\ UNCHANGED <<registry_vars, cache_vars, key_vars,
                 adapter_vars, item_vars, fetch_vars, single_vars, http_vars>>

\* main.py 115-131: gather has every task's result; merge, sort, respond
Respond ==
    /\ phase = "gathering"
    /\ \A i \in DOMAIN task : TaskDone(i)
    /\ response' = Some(SearchResponse(errors, results_lists, platforms_searched))
    /\ phase' = "responded"
    /\ UNCHANGED <<max_concurrent_requests, request, scrapers, platforms_searched,
                   semaphore, task, results_lists, errors, search_calls>>
    /\ UNCHANGED <<registry_vars, cache_vars, key_vars,
                 adapter_vars, item_vars, fetch_vars, single_vars, http_vars>>

\* the registry at rest: no register or close_all call in progress
RegistryAtRest(names) ==
    /\ _scrapers = RegistryOf(names)
    /\ scraper_client = [i \in 1..Len(names) |-> "none"]
    /\ next_scraper = Len(names) + 1
    /\ register_log = [i \in 1..Len(names) |-> Scraper(i, names[i])]
    /\ close_all = "idle"
    /\ close_log = <<>>

\* the orchestrator before a request
BatchAtRest ==
    /\ request = [platforms |-> None]
    /\ phase = "idle"
    /\ scrapers = <<>>
    /\ platforms_searched = <<>>
    /\ semaphore = 0
    /\ task = <<>>
    /\ results_lists = <<>>
    /\ errors = <<>>
    /\ search_calls = <<>>
    /\ response = None

\* the service after startup: the default adapters registered (registry.py 22-25),
\* or none without an API key (registry.py 27-28)
InitBatch ==
    /\ \E names \in {DefaultPlatforms, <<>>} : RegistryAtRest(names)
    /\ max_concurrent_requests \in -1..MaxConcurrent
    /\ BatchAtRest
    /\ redis_url = TRUE /\ redis_up = TRUE /\ CacheAtRest
    /\ KeyAtRest
    /\ AdapterAtRest
    /\ ItemAtRest /\ FetchAtRest /\ SingleAtRest /\ HttpAtRest

NextBatch ==
    \/ \E platforms \in RequestPlatforms : SearchHotels(platforms)
    \/ \E i \in DOMAIN task : TaskEnter(i)
    \/ \E i \in DOMAIN task :
          \E results \in AdapterResults(scrapers[i].platform_name) : TaskReturn(i, results)
    \/ \E i \in DOMAIN task : \E message \in Messages : TaskRaise(i, message)
    \/ Respond

SpecBatch == InitBatch /\ [][NextBatch]_vars

----------------------------------------------------------------------------
(* Properties of the multi-platform search, checked under SpecBatch *)

Responded == phase = "responded"

Raised == {i \in DOMAIN task : task[i].pc = "raised"}

Returned == {i \in DOMAIN task : task[i].pc = "returned"}

\* how many hotels equal to h the adapters that did not raise returned
ReturnedCount(h) ==
    Cardinality({ik \in Returned \X (1..MaxHotels + 1) :
                    /\ ik[2] \in DOMAIN task[ik[1]].returned[1]
                    /\ task[ik[1]].returned[1][ik[2]] = h})

Count(s, x) == Cardinality({i \in DOMAIN s : s[i] = x})

Bijections(S) == {f \in [1..Cardinality(S) -> S] : \A a, b \in DOMAIN f : f[a] = f[b] => a = b}

\* every dispatched adapter is dispatched once
DistinctDispatch ==
    \A i, j \in DOMAIN scrapers : scrapers[i].id = scrapers[j].id => i = j

\* C1: the success flag of a multi-platform response is false if and only if
\* every dispatched adapter raised and the merged hotel list is empty; so a batch
\* in which only some adapters raised and no hotel was returned has success true.
C1_SuccessFalseOnlyOnTotalFailure ==
    (Responded /\ DistinctDispatch) =>
        (response[1].success = FALSE
            <=> /\ scrapers # <<>>
                /\ Raised = DOMAIN task
                /\ response[1].hotels = <<>>)

\* C2: error_message is present if and only if some dispatched adapter raised;
\* it is then the "; "-join of one `platform: message` entry per raising adapter
\* task and of nothing else, and the hotels are exactly those the adapters that
\* did not raise returned.
C2_ErrorMessageNamesExactlyTheRaisers ==
    Responded =>
        LET r == response[1]
        IN  /\ r.error_message # None <=> Raised # {}
            /\ Raised # {} =>
                  \E order \in Bijections(Raised) :
                      r.error_message[1] =
                          Join("; ", [k \in DOMAIN order |->
                                         <<scrapers[order[k]].platform_name, ": ",
                                           task[order[k]].raised[1]>>])
            /\ \A i \in Returned : \A k \in DOMAIN task[i].returned[1] :
                  LET h == task[i].returned[1][k]
                  IN  Count(r.hotels, h) = ReturnedCount(h)
            /\ \A k \in DOMAIN r.hotels : ReturnedCount(r.hotels[k]) > 0

\* C2's case: a response to a batch in which one adapter raised and another
\* returned a hotel
C2_Witness ==
    /\ Responded
    /\ Raised # {}
    /\ Returned # {}
    /\ response[1].hotels # <<>>
    /\ response[1].error_message # None

\* C3: the hotels of a multi-platform response are in non-decreasing order of
\* price over every pair of priced records (zero and prices above 999999
\* included), and every record without a price comes after every priced one.
C3_HotelsSortedByPrice ==
    (Responded /\ DistinctDispatch) =>
        LET hotels == response[1].hotels
        IN  \A i, j \in DOMAIN hotels :
                i < j =>
                    /\ (hotels[i].price # None /\ hotels[j].price # None)
                          => hotels[i].price[1] <= hotels[j].price[1]
                    /\ ~(hotels[i].price = None /\ hotels[j].price # None)

\* the names of an explicit platform list that the registry knows, in request order
RequestedKnown ==
    SelectSeq(request.platforms[1], LAMBDA p : p \in Range(get_platforms))

IsPrefix(s, t) == Len(s) <= Len(t) /\ s = SubSeq(t, 1, Len(s))

\* C4: with an explicit platform list, searches go only to the listed names the
\* registry knows and platforms_searched lists exactly those; a list with no
\* known name is rejected before any adapter search (and so before any
\* destination lookup or cache access, which only an adapter search performs);
\* with no list, every registered adapter is dispatched.
C4_PlatformFilter ==
    /\ phase \in {"gathering", "responded"} =>
          /\ platforms_searched =
                IF Truthy(request.platforms) THEN RequestedKnown ELSE get_platforms
          /\ IsPrefix(search_calls, platforms_searched)
          /\ Len(task) = Len(platforms_searched)
          /\ Responded => search_calls = platforms_searched
    /\ phase = "rejected" =>
          /\ Truthy(request.platforms)
          /\ RequestedKnown = <<>>
          /\ search_calls = <<>>
          /\ task = <<>>
          /\ response = None
    /\ (phase # "idle" /\ Truthy(request.platforms) /\ RequestedKnown = <<>>)
          => phase = "rejected"

\* C4's case: a list of one known and one unknown name, answered after a search
\* of the known adapter alone
C4_Witness ==
    /\ Responded
    /\ request.platforms = Some(<<"booking", "expedia">>)
    /\ platforms_searched = <<"booking">>
    /\ search_calls = <<"booking">>

\* C5: during a batch, the adapter tasks inside the concurrency gate never
\* number more than max_concurrent_requests.
C5_GateBound ==
    phase = "gathering" => Cardinality(InFlight) <= max_concurrent_requests

\* C5's case: the gate is full while another task of the batch waits at it
C5_Witness ==
    /\ phase = "gathering"
    /\ Cardinality(InFlight) = max_concurrent_requests
    /\ \E i \in DOMAIN task : task[i].pc = "pending"
    /\ InFlight # {}

\* C6: the response is produced only after every dispatched adapter task has
\* returned or raised; a task that raises does not end the batch, leaves every
\* other task as it was and gives its place in the gate back, so that the other
\* tasks start and finish.
C6_FanInAndIsolation ==
    /\ [](/\ response # None =>
                /\ Len(task) = Len(scrapers)
                /\ \A i \in DOMAIN task : TaskDone(i)
          /\ Raised # {} => phase \in {"gathering", "responded"}
          /\ phase = "gathering" =>
                semaphore + Cardinality(InFlight) = max_concurrent_requests)
    /\ [][\A i \in DOMAIN task :
            (task[i].pc = "running" /\ task'[i].pc = "raised") =>
                /\ phase' = "gathering"
                /\ \A j \in DOMAIN task : j # i => task'[j] = task[j]]_vars

\* C6's case: a response to a batch in which the first task raised and a later
\* task started after that and returned a hotel
C6_Witness ==
    /\ Responded
    /\ Len(task) >= 2
    /\ task[1].pc = "raised"
    /\ max_concurrent_requests = 1
    /\ \E j \in DOMAIN task : task[j].pc = "returned" /\ task[j].returned[1] # <<>>

----------------------------------------------------------------------------
(* The registry on its own: registrations, clients opened by use, shutdown *)

\* config.py 13: the default of max_concurrent_requests
DefaultMaxConcurrent == 3

\* the names scrapers are registered under
RegistryNames == Range(DefaultPlatforms)

\* registry.py 16-17: the registry as constructed, before any register() call
InitRegistry ==
    /\ RegistryAtRest(<<>>)
    /\ max_concurrent_requests = DefaultMaxConcurrent
    /\ BatchAtRest
    /\ redis_url = TRUE /\ redis_up = TRUE /\ CacheAtRest
    /\ KeyAtRest
    /\ AdapterAtRest
    /\ ItemAtRest /\ FetchAtRest /\ SingleAtRest /\ HttpAtRest

NextRegistry ==
    \/ \E name \in RegistryNames : Register(name)
    \/ \E id \in 1..MaxRegistrations : GetClient(id)
    \/ CloseAllStart
    \/ \E released \in BOOLEAN : CloseAllStep(released)
    \/ CloseAllReturn

SpecRegistry == InitRegistry /\ [][NextRegistry]_vars

\* the scraper most recently passed to register() with the platform name, or None
LastRegistered(name) ==
    LET calls == {i \in DOMAIN register_log : register_log[i].platform_name = name}
    IN  IF calls = {} THEN None
        ELSE Some(register_log[CHOOSE i \in calls : \A j \in calls : j <= i])

\* C7: close_all() attempts the release of every registered adapter: when the
\* release of one raises, the adapters after it are still released.
C7_CloseAllReachesEveryAdapter ==
    close_all \in {"done", "raised"} =>
        \A i \in DOMAIN _scrapers : _scrapers[i].value.id \in Range(close_log)

\* C8: after any register calls the registry holds one adapter per distinct
\* name, get(name) is the adapter registered last under the name (None for a
\* name never registered), and get_platforms() and get_all() list the same
\* entries in the same order.
C8_RegistryIsAMapOfLatest ==
    /\ \A i, j \in DOMAIN _scrapers : _scrapers[i].key = _scrapers[j].key => i = j
    /\ Range(get_platforms) = {register_log[i].platform_name : i \in DOMAIN register_log}
    /\ \A name \in RegistryNames \cup {"expedia"} : get(name) = LastRegistered(name)
    /\ Len(get_all) = Len(get_platforms)
    /\ \A i \in DOMAIN get_platforms :
          /\ get_all[i].platform_name = get_platforms[i]
          /\ Some(get_all[i]) = get(get_platforms[i])

\* C8's case: a name registered a second time beside another name
C8_Witness ==
    /\ Len(_scrapers) >= 2
    /\ \E i, j \in DOMAIN register_log :
          /\ i < j
          /\ register_log[i].platform_name = register_log[j].platform_name
          /\ get(register_log[j].platform_name) = Some(register_log[j])

----------------------------------------------------------------------------
(* The cache layer on its own: startup, calls, a store that comes and goes *)

\* the cache before lifespan's connect(), with or without a configured URL and
\* with the store reachable or not
InitCache ==
    /\ RegistryAtRest(<<>>)
    /\ max_concurrent_requests = DefaultMaxConcurrent
    /\ BatchAtRest
    /\ redis_url \in BOOLEAN
    /\ redis_up \in BOOLEAN
    /\ CacheAtRest
    /\ KeyAtRest
    /\ AdapterAtRest
    /\ ItemAtRest /\ FetchAtRest /\ SingleAtRest /\ HttpAtRest

NextCache ==
    \/ Connect
    \/ \E closed \in BOOLEAN : Disconnect(closed)
    \/ \E key \in CacheKeys : CacheGet(key)
    \/ \E key \in CacheKeys : \E value \in CacheValues :
          \E ttl \in {cache_destination_ttl, cache_search_ttl} : CacheSet(key, value, ttl)
    \/ \E key \in CacheKeys : CacheDelete(key)
    \/ RedisChanges
    \/ \E key \in CacheKeys : ForeignWrite(key)

SpecCache == InitCache /\ [][NextCache]_vars

\* C9: connect(), get(), set() and delete() never raise: connect() returns
\* whether or not the store is reachable; without a client get() returns None
\* and set()/delete() return False, and the store is not contacted; with a
\* client, a failing store call makes get() return None and set()/delete()
\* return False.
C9_CacheNeverRaises ==
    /\ cache_call.op \in {"connect", "get", "set", "delete"} =>
          cache_call.outcome = "returned"
    /\ (cache_call.op = "connect" /\ cache_call.failed) => cache_client = "none"
    /\ cache_call.op \in {"get", "set", "delete"} =>
          /\ ~cache_call.connected =>
                /\ ~cache_call.contacted
                /\ cache_call.result = IF cache_call.op = "get" THEN None ELSE Some(FALSE)
          /\ (cache_call.connected /\ cache_call.failed) =>
                cache_call.result = IF cache_call.op = "get" THEN None ELSE Some(FALSE)

\* C9's case: a get() on a connected cache whose store call failed
C9_Witness ==
    /\ cache_call.op = "get"
    /\ cache_call.connected
    /\ cache_call.failed
    /\ ~redis_up
    /\ cache_call.outcome = "returned"
    /\ cache_call.result = None

----------------------------------------------------------------------------
(* Key construction on its own: arguments drawn, keys built *)

InitKey ==
    /\ RegistryAtRest(<<>>)
    /\ max_concurrent_requests = DefaultMaxConcurrent
    /\ BatchAtRest
    /\ redis_url = TRUE /\ redis_up = TRUE /\ CacheAtRest
    /\ key_in \in KeyInputs
    /\ key_out = None
    /\ AdapterAtRest
    /\ ItemAtRest /\ FetchAtRest /\ SingleAtRest /\ HttpAtRest

NextKey == MakeKeys

SpecKey == InitKey /\ [][NextKey]_vars

IsLetter(c) == (c >= 65 /\ c <= 90) \/ (c >= 97 /\ c <= 122)

\* two strings that differ at most in the case of their letters
DifferOnlyInCase(a, b) ==
    /\ Len(a) = Len(b)
    /\ \A i \in DOMAIN a :
          \/ a[i] = b[i]
          \/ /\ IsLetter(a[i]) /\ IsLetter(b[i])
             /\ (a[i] - b[i] = 32 \/ b[i] - a[i] = 32)

\* C10: for any domain, platform and extra arguments, two cities that differ
\* only in letter case get the same cache key, for destination keys and for
\* search-result keys, hashed or not.
C10_KeyIgnoresCityCase ==
    (key_out # None /\ DifferOnlyInCase(key_in.city1, key_in.city2)) =>
        key_out[1][1] = key_out[1][2]

\* C10's case: a hashed search-result key built for two cities of different case
C10_Witness ==
    /\ key_out # None
    /\ key_in.kind = "search"
    /\ key_in.city1 # key_in.city2
    /\ DifferOnlyInCase(key_in.city1, key_in.city2)
    /\ Len(KeyDataFor(key_in, key_in.city1)) > KeyHashThreshold
    /\ Len(key_out[1][1]) = Len(SearchPrefix) + 1 + KeyHashLen
    /\ key_out[1][1] = key_out[1][2]

\* the domain prefix of a key construction
PrefixOf(in) == IF in.kind = "dest" THEN DestPrefix ELSE SearchPrefix

\* the composed key "<domain>:<platform>:<lowercased-city>[:<extra-args>]"
ComposedKey(in, city) == PrefixOf(in) \o <<Colon>> \o KeyDataFor(in, city)

IsHexChar(c) == (c >= 48 /\ c <= 57) \/ (c >= 97 /\ c <= 102)

\* a key of the form "<domain>:<16 hex characters>"
IsHashedKey(in, key) ==
    /\ Len(key) = Len(PrefixOf(in)) + 1 + KeyHashLen
    /\ SubSeq(key, 1, Len(PrefixOf(in)) + 1) = PrefixOf(in) \o <<Colon>>
    /\ \A i \in (Len(PrefixOf(in)) + 2)..Len(key) : IsHexChar(key[i])

\* C11: whenever the composed key, domain prefix included, is longer than 100
\* characters the key used is "<domain>:<16 hex characters>"; no key built is
\* longer than 100 characters; a composed key of at most 100 characters is
\* used unchanged.
C11_LongKeysAreHashed ==
    key_out # None =>
        \A i \in 1..2 :
            LET city == IF i = 1 THEN key_in.city1 ELSE key_in.city2
                composed == ComposedKey(key_in, city)
                key == key_out[1][i]
            IN  /\ Len(composed) > KeyHashThreshold => IsHashedKey(key_in, key)
                /\ Len(key) <= KeyHashThreshold
                /\ Len(composed) <= KeyHashThreshold => key = composed

----------------------------------------------------------------------------
(* One adapter after startup, called again and again while time passes and     *)
(* the store comes and goes                                                    *)

\* an adapter after lifespan's connect() (main.py 24-25): the cache client is
\* there when a URL is configured and the store answered
AdapterStarted ==
    /\ RegistryAtRest(DefaultPlatforms)
    /\ max_concurrent_requests = DefaultMaxConcurrent
    /\ BatchAtRest
    /\ KeyAtRest
    /\ cache_client = IF redis_url /\ redis_up THEN "client" ELSE "none"
    /\ cache_call = CacheCall("connect", FALSE, redis_url, redis_url /\ ~redis_up,
                              "returned", None)
    /\ adapter \in AdapterNames
    /\ store = [k \in AdapterKeys(adapter) |-> None]
    /\ expires_at = [k \in AdapterKeys(adapter) |-> 0]
    /\ now = 0
    /\ lookups = [c \in {Lower(city) : city \in AdapterCities} |-> None]
    /\ call = IdleCall
    /\ ItemAtRest /\ FetchAtRest /\ SingleAtRest /\ HttpAtRest

\* a cache URL is configured; the store may be out of reach at startup
InitAdapter ==
    /\ redis_url = TRUE
    /\ redis_up \in BOOLEAN
    /\ AdapterStarted

\* searches for "A" and "a" whose lookups find a location with an identifier
\* or fail, while time passes and the store comes and goes
NextAdapter ==
    \/ \E city \in {<<65>>, <<97>>} : SearchStart(city, Criteria(None, None, None, FALSE))
    \/ \E resp \in {r \in LookupResponses : r.kind = "match" => r.id # None} :
          LookupResponds(resp)
    \/ SearchRequest
    \/ \E resp \in {r \in SearchResponses : r.kind = "transport" \/ r.items = <<>>} :
          SearchResponds(resp)
    \/ CallEnds
    \/ \E t \in Instants : Advance(t)
    \/ StoreOutage

SpecAdapter == InitAdapter /\ [][NextAdapter]_vars

\* the record a successful lookup for the lower-cased city c stored, when the
\* store took it and has been within reach without a break since
Kept(c) == lookups[c] # None /\ lookups[c][1].intact

\* C12: with a connected cache, once a resolution has succeeded through a
\* provider lookup its record is in the store under the destination TTL, and a
\* later resolution for the same platform and a city that differs at most in
\* letter case, started before that TTL has run out, returns the identifier of
\* that record and sends no location lookup to the provider.
C12_DestinationCachedWithinTtl ==
    /\ \A c \in DOMAIN lookups :
          (Kept(c) /\ now < lookups[c][1].at + cache_destination_ttl) =>
              LET key == DestinationKey(PlatformStr(adapter), c)
              IN  /\ store[key] = Some([data |-> Dumps([id |-> lookups[c][1].id]),
                                        ttl |-> cache_destination_ttl])
                  /\ expires_at[key] = lookups[c][1].at + cache_destination_ttl
    /\ (/\ call.pc # "idle"
        /\ call.prior # None
        /\ call.prior[1].intact
        /\ call.start < call.prior[1].at + cache_destination_ttl) =>
           /\ call.via = "cache"
           /\ call.ret = Some([id |-> call.prior[1].id])
           /\ \A i \in DOMAIN call.trace : call.trace[i] # "lookup_request"

\* C12's case: a search for a city resolved from the record that a lookup for
\* the same city in another letter case stored earlier
C12_Witness ==
    /\ call.pc = "returned"
    /\ call.via = "cache"
    /\ call.prior # None
    /\ call.prior[1].intact
    /\ call.prior[1].city # call.city
    /\ call.start > call.prior[1].at
    /\ call.ret = Some([id |-> call.prior[1].id])

----------------------------------------------------------------------------
(* One adapter's searches and what the provider answers, at one instant *)

\* with or without a cache URL, the store within reach or not
InitSearch ==
    /\ redis_url \in BOOLEAN
    /\ redis_up \in BOOLEAN
    /\ AdapterStarted

NextSearch ==
    \/ \E city \in AdapterCities : \E criteria \in AdapterCriteria :
          SearchStart(city, criteria)
    \/ \E resp \in LookupResponses : LookupResponds(resp)
    \/ SearchRequest
    \/ \E resp \in SearchResponses : SearchResponds(resp)
    \/ CallEnds

SpecSearch == InitSearch /\ [][NextSearch]_vars

\* the lookup responses that find no location: the request failed, or no match
NoLocation == {"transport", "status", "no_match"}

\* C13: destination resolution never raises: when the lookup finds no match or
\* the lookup request fails, resolution returns absent and the cache is left
\* as it was, with no destination record written.
C13_ResolutionNeverRaises ==
    /\ [](call.pc = "raised" => call.search # "none")
    /\ [][(call.pc = "lookup" /\ call'.pc # "lookup" /\ call'.lookup \in NoLocation) =>
            /\ call'.pc = "returned"
            /\ call'.via = "lookup"
            /\ call'.ret = None
            /\ store' = store
            /\ expires_at' = expires_at
            /\ \A i \in DOMAIN call'.trace : call'.trace[i] # "cache_set"]_vars

\* C13's case: a lookup failed in transport while the cache, connected and
\* holding another city's record, has none for the city looked up
C13_Witness ==
    /\ call.pc = "returned"
    /\ call.lookup = "transport"
    /\ call.ret = None
    /\ cache_client = "client" /\ redis_up
    /\ store[DestinationKey(PlatformStr(adapter), call.city)] = None
    /\ \E k \in DOMAIN store : store[k] # None

\* the event occurs in the trace of the call
Occurs(event) == \E i \in DOMAIN call.trace : call.trace[i] = event

\* C14: within one search() the search request is sent only after destination
\* resolution has returned, and when resolution returns absent search() returns
\* the empty list, having sent no search request and slept no pacing delay.
C14_SearchOnlyAfterResolution ==
    /\ \A i \in DOMAIN call.trace :
          call.trace[i] \in {"sleep", "search_request"} =>
              /\ call.via # "none"
              /\ \E j \in 1..(i - 1) : call.trace[j] = "resolved"
    /\ (call.via # "none" /\ call.ret = None) =>
           /\ call.pc = "returned"
           /\ call.results = <<>>
           /\ ~Occurs("search_request")
           /\ ~Occurs("sleep")

\* C14's case: a search whose lookup found no location has returned
C14_Witness ==
    /\ call.pc = "returned"
    /\ call.lookup = "no_match"
    /\ call.ret = None
    /\ call.results = <<>>
    /\ call.trace = <<"cache_get", "lookup_request", "resolved">>

\* the positions of the response's items that search() accepted
Accepted ==
    {i \in DOMAIN call.items : ItemOutcome(adapter, call.criteria, call.items[i]) = "accepted"}

\* C15: search() passes no network or provider error on to its caller: a search
\* request that fails (an HTTP error status, 429 and 403 among them, or a
\* transport error) gives the empty list, and an error raised while one item
\* is processed leaves every accepted item in the list returned.
C15_SearchNeverPropagates ==
    /\ call.pc # "raised"
    /\ (call.pc = "returned" /\ call.search \in {"status_429", "status_403", "transport"}) =>
           call.results = <<>>
    /\ (call.pc = "returned" /\ call.search = "body") =>
           /\ Len(call.results) = Cardinality(Accepted)
           /\ \A i \in Accepted :
                 call.results[Cardinality({j \in Accepted : j <= i})] =
                     _parse_hotel(adapter, call.items[i])[1]

\* C15's case: the Hotels.com adapter returns the hotel it had accepted before
\* the processing of the next item raised
C15_Witness ==
    /\ call.pc = "returned"
    /\ call.search = "body"
    /\ Len(call.items) = 2
    /\ ItemOutcome(adapter, call.criteria, call.items[1]) = "accepted"
    /\ ItemOutcome(adapter, call.criteria, call.items[2]) = "raised"
    /\ call.results = <<_parse_hotel(adapter, call.items[1])[1]>>

----------------------------------------------------------------------------
(* The adapters' loop on its own: one result item under every criteria *)

InitItems ==
    /\ RegistryAtRest(DefaultPlatforms)
    /\ max_concurrent_requests = DefaultMaxConcurrent
    /\ BatchAtRest
    /\ redis_url = TRUE /\ redis_up = TRUE /\ CacheAtRest
    /\ KeyAtRest
    /\ AdapterAtRest
    /\ FetchAtRest /\ SingleAtRest /\ HttpAtRest
    /\ item_in \in {Some([name |-> name, criteria |-> criteria, hotels |-> <<hotel>>]) :
                        name \in AdapterNames, criteria \in ItemCriteria,
                        hotel \in ItemHotels}
    /\ item_out = None

NextItems == ProcessItems

SpecItems == InitItems /\ [][NextItems]_vars

\* C16: every HotelResult an adapter returns has a rating that is absent or
\* within [0, 5], whatever raw rating the provider sent, guest scores above
\* the declared scale and the Priceline adapter's star ratings included.
C16_RatingWithinScale ==
    item_out # None =>
        \A i \in DOMAIN item_out[1] :
            \/ item_out[1][i].rating = None
            \/ (item_out[1][i].rating[1] >= 0 /\ item_out[1][i].rating[1] <= 50)

\* the item processed, the criteria it met and the candidate it parses to
TheHotel == item_in[1].hotels[1]

TheCriteria == item_in[1].criteria

Candidate == _parse_hotel(item_in[1].name, TheHotel)

\* the candidate satisfies every filter the criteria supply; a candidate
\* without a rating counts as passing min_rating
SatisfiesFilters ==
    /\ TheCriteria.max_price # None => Candidate[1].price <= TheCriteria.max_price[1]
    /\ (TheCriteria.min_rating # None /\ Candidate[1].rating # None) =>
           Candidate[1].rating[1] >= TheCriteria.min_rating[1]
    /\ TheCriteria.free_cancellation => TheHotel.free
    /\ TheCriteria.hotel_name # None =>
           Contains(Lower(Candidate[1].name), Lower(TheCriteria.hotel_name[1]))

\* C20: every hotel search() returns satisfies every filter supplied: its price
\* is at most max_price when max_price is given, 0 included; its rating is at
\* least min_rating when given; it is free-cancellable when free_cancellation
\* is asked; its name contains hotel_name, case ignored, when given.  And
\* every candidate that satisfies all supplied filters is returned.
C20_FiltersHold ==
    (item_out # None /\ Candidate # None /\ TheHotel.options_ok) =>
        /\ item_out[1] # <<>> => SatisfiesFilters
        /\ SatisfiesFilters => item_out[1] = <<Candidate[1]>>

----------------------------------------------------------------------------
(* A page scraper's _fetch_page calls, one at a time *)

InitFetch ==
    /\ RegistryAtRest(DefaultPlatforms)
    /\ max_concurrent_requests = DefaultMaxConcurrent
    /\ BatchAtRest
    /\ redis_url = TRUE /\ redis_up = TRUE /\ CacheAtRest
    /\ KeyAtRest
    /\ AdapterAtRest
    /\ ItemAtRest /\ SingleAtRest /\ HttpAtRest
    /\ fetch = IdleFetch

NextFetch ==
    \/ \E url \in FetchUrls : FetchPage(url)
    \/ FetchRequest
    \/ \E body \in FetchBodies : AttemptSucceeds(body)
    \/ \E error \in AttemptErrors : AttemptFails(error)
    \/ Retry
    \/ FetchEnds

SpecFetch == InitFetch /\ [][NextFetch]_vars

\* how often the event occurs in the trace of the fetch
Times(event) == Cardinality({i \in DOMAIN fetch.trace : fetch.trace[i] = event})

\* C17: _fetch_page makes its attempts one after another until the first that
\* succeeds, never more than 3 for one call; an attempt that succeeds returns
\* its body and no attempt follows it; when all 3 attempts fail the error of
\* the last attempt is what propagates to the caller.
C17_BoundedAttempts ==
    /\ fetch.attempt_number <= 3
    /\ Times("request") <= 3
    /\ Len(fetch.errors) \in {fetch.attempt_number - 1, fetch.attempt_number}
    /\ fetch.pc = "returned" =>
           /\ Len(fetch.errors) = fetch.attempt_number - 1
           /\ Times("request") = fetch.attempt_number
           /\ fetch.trace[Len(fetch.trace)] = "request"
           /\ fetch.outcome[1].kind = "returned"
    /\ fetch.pc = "raised" =>
           /\ Len(fetch.errors) = 3
           /\ Times("request") = 3
           /\ fetch.outcome[1].kind = "raised"
           /\ fetch.outcome[1].type = fetch.errors[3]

\* C18: the pacing delay elapses before the request of every attempt, the first
\* and each retry: a fetch of k attempts sleeps the delay exactly k times, each
\* time right before the attempt's request.
C18_PacingBeforeEveryAttempt ==
    /\ \A i \in DOMAIN fetch.trace :
          fetch.trace[i] = "request" => (i > 1 /\ fetch.trace[i - 1] = "sleep")
    /\ Times("sleep") = fetch.attempt_number
    /\ fetch.pc \in {"returned", "raised"} =>
           (Times("sleep") = Times("request") /\ Times("request") = fetch.attempt_number)

\* C18's case: a fetch of three attempts, each with its own pacing delay
C18_Witness ==
    /\ fetch.pc = "returned"
    /\ fetch.attempt_number = 3
    /\ fetch.trace = <<"sleep", "request", "wait", "sleep", "request", "wait",
                       "sleep", "request">>

----------------------------------------------------------------------------
(* main.py: search_single_platform, the single-platform search *)

MaxSingleHotels == 3    \* longest result list the adapter of a single-platform search returns

\* the platform path parameter: the three default names and one no adapter has
SinglePlatforms == Range(DefaultPlatforms) \cup {"expedia"}

\* str(e) of what scraper.search may raise; an exception without arguments gives ""
SingleMessages == {"timeout", ""}

\* the lists scraper.search may return: HotelResult.price is a required Decimal
\* (schemas.py 38), so every result carries a price
SingleResults(platform) ==
    {[k \in DOMAIN ps |-> HotelResult(platform, k, Some(ps[k]))] :
        ps \in SeqsUpTo(PriceValues, MaxSingleHotels)}

\* x put into the list s, sorted by price, after every element not dearer than x
InsertByPrice(s, x) ==
    LET later == {i \in DOMAIN s : x.price[1] < s[i].price[1]}
        at == IF later = {} THEN Len(s) + 1
              ELSE CHOOSE i \in later : \A j \in later : i <= j
    IN  SubSeq(s, 1, at - 1) \o <<x>> \o SubSeq(s, at, Len(s))

\* a variant that leaves the list in the adapter's order
SortByPriceSkipped(s) == s

RECURSIVE SortByPrice(_)
\* main.py 156: results.sort(key=lambda x: x.price), stable and ascending
SortByPrice(s) ==
    IF s = <<>> THEN <<>>
    ELSE InsertByPrice(SortByPrice(SubSeq(s, 1, Len(s) - 1)), s[Len(s)])

\* main.py 158-163: the response of a search that returned
SingleSuccess(platform, results) ==
    LET sorted == SortByPrice(results)
    IN  [success |-> TRUE,
         hotels |-> sorted,
         total_results |-> Len(sorted),
         platforms_searched |-> <<platform>>,
         error_message |-> None]

\* main.py 165-173: the response of a search that raised e, with str(e) = message
SingleFailure(platform, message) ==
    [success |-> FALSE,
     hotels |-> <<>>,
     total_results |-> 0,
     platforms_searched |-> <<platform>>,
     error_message |-> Some(message)]

\* main.py 135-145: look the platform up; without a scraper raise the 404
\* HTTPException, otherwise call scraper.search and await it
SearchSinglePlatform(platform) ==
    /\ single.pc = "idle"
    /\ LET scraper == get(platform)
       IN  IF scraper = None
           THEN single' = [single EXCEPT
                    !.pc = "not_found",
                    !.platform = Some(platform),
                    !.exception = Some([status_code |-> 404,
                                        available |-> get_platforms])]
           ELSE single' = [single EXCEPT
                    !.pc = "searching",
                    !.platform = Some(platform),
                    !.called = Append(@, scraper[1])]
    /\ UNCHANGED <<registry_vars, batch_vars, cache_vars, key_vars, adapter_vars, item_vars,
                   fetch_vars, http_vars>>

\* main.py 145-163: scraper.search returned; sort by price and build the response
SingleSearchReturns(results) ==
    /\ single.pc = "searching"
    /\ single' = [single EXCEPT
            !.pc = "responded",
            !.outcome = Some([kind |-> "returned", results |-> results]),
            !.response = Some(SingleSuccess(single.platform[1], results))]
    /\ UNCHANGED <<registry_vars, batch_vars, cache_vars, key_vars, adapter_vars, item_vars,
                   fetch_vars, http_vars>>

\* main.py 165-173: scraper.search raised; the except clause builds the response
SingleSearchRaises(message) ==
    /\ single.pc = "searching"
    /\ single' = [single EXCEPT
            !.pc = "responded",
            !.outcome = Some([kind |-> "raised", message |-> message]),
            !.response = Some(SingleFailure(single.platform[1], message))]
    /\ UNCHANGED <<registry_vars, batch_vars, cache_vars, key_vars, adapter_vars, item_vars,
                   fetch_vars, http_vars>>

\* the service after startup, before a single-platform request
InitSingle ==
    /\ \E names \in {DefaultPlatforms, <<>>} : RegistryAtRest(names)
    /\ max_concurrent_requests = 1
    /\ BatchAtRest
    /\ redis_url = TRUE /\ redis_up = TRUE /\ CacheAtRest
    /\ KeyAtRest
    /\ AdapterAtRest
    /\ ItemAtRest /\ FetchAtRest /\ SingleAtRest /\ HttpAtRest

NextSingle ==
    \/ \E platform \in SinglePlatforms : SearchSinglePlatform(platform)
    \/ \E platform \in SinglePlatforms : \E results \in SingleResults(platform) :
           single.platform = Some(platform) /\ SingleSearchReturns(results)
    \/ \E message \in SingleMessages : SingleSearchRaises(message)

SpecSingle == InitSingle /\ [][NextSingle]_vars

\* the prices of a list do not decrease along it
AscendingByPrice(hotels) ==
    \A i, j \in DOMAIN hotels : i < j => hotels[i].price[1] <= hotels[j].price[1]

\* C19: an unknown platform ends in the 404 exception with no adapter called and no
\* response; a known platform ends in a response that names exactly that platform and
\* counts its hotels, unsuccessful with no hotels and an error message exactly when the
\* adapter's search raised, and otherwise successful with the adapter's hotels in
\* ascending order of price
C19_SinglePlatformOutcome ==
    /\ single.pc = "not_found" =>
           /\ get(single.platform[1]) = None
           /\ single.called = <<>>
           /\ single.response = None
           /\ single.exception # None /\ single.exception[1].status_code = 404
    /\ single.pc = "responded" =>
           LET r == single.response[1]
               o == single.outcome[1]
           IN  /\ get(single.platform[1]) # None
               /\ single.called = <<get(single.platform[1])[1]>>
               /\ single.exception = None
               /\ r.platforms_searched = <<single.platform[1]>>
               /\ r.total_results = Len(r.hotels)
               /\ (o.kind = "raised") <=> (r.success = FALSE)
               /\ (o.kind = "raised") <=> (r.error_message # None)
               /\ o.kind = "raised" => r.hotels = <<>>
               /\ o.kind = "returned" =>
                      /\ Len(r.hotels) = Len(o.results)
                      /\ Range(r.hotels) = Range(o.results)
                      /\ AscendingByPrice(r.hotels)

\* a known platform whose adapter returned three hotels, the dearest first
C19_Witness ==
    /\ single.pc = "responded"
    /\ single.outcome[1].kind = "returned"
    /\ Len(single.outcome[1].results) = 3
    /\ single.outcome[1].results[1].price[1] > single.outcome[1].results[3].price[1]
    /\ single.response[1].hotels[1] = single.outcome[1].results[3]

----------------------------------------------------------------------------
(* The merge of the multi-platform search, checked under SpecMerge *)

MaxMergeHotels == 2     \* longest result list of an adapter in a batch that is merged

\* prices that make ties: a zero, which sorts under the sentinel, and an ordinary one
MergePrices == {0, 10}

\* main.py 97: the lists scraper.search may return, long enough to hold a tie
MergeResults(platform) ==
    {[k \in DOMAIN ps |-> HotelResult(platform, k, Some(ps[k]))] :
        ps \in SeqsUpTo(MergePrices, MaxMergeHotels)}

\* explicit platform lists of two known adapters, in either order
MergeRequests == {Some(<<"booking", "hotels_com">>), Some(<<"hotels_com", "booking">>)}

\* the service after startup with the default adapters registered
InitMerge ==
    /\ RegistryAtRest(DefaultPlatforms)
    /\ max_concurrent_requests \in 1..MaxConcurrent
    /\ BatchAtRest
    /\ redis_url = TRUE /\ redis_up = TRUE /\ CacheAtRest
    /\ KeyAtRest
    /\ AdapterAtRest
    /\ ItemAtRest /\ FetchAtRest /\ SingleAtRest /\ HttpAtRest

NextMerge ==
    \/ \E platforms \in MergeRequests : SearchHotels(platforms)
    \/ \E i \in DOMAIN task : TaskEnter(i)
    \/ \E i \in DOMAIN task :
          \E results \in MergeResults(scrapers[i].platform_name) : TaskReturn(i, results)
    \/ \E i \in DOMAIN task : \E message \in Messages : TaskRaise(i, message)
    \/ Respond

SpecMerge == InitMerge /\ [][NextMerge]_vars

RECURSIVE DispatchOrder(_)
\* what the first n tasks returned, one list after the other in dispatch order;
\* a task that raised contributes nothing
DispatchOrder(n) ==
    IF n = 0 THEN <<>>
    ELSE DispatchOrder(n - 1) \o
            (IF task[n].returned # None THEN task[n].returned[1] ELSE <<>>)

\* the hotels of the list that have the given price, in the order of the list
Priced(hotels, price) == SelectSeq(hotels, LAMBDA h : h.price = price)

\* C21: the merged list holds the hotels of the adapters' lists, and hotels of equal
\* price stand in it in dispatch order of their adapters and, within one adapter, in
\* that adapter's order, in whichever order the tasks completed
C21_MergeKeepsDispatchOrder ==
    Responded =>
        LET hotels == response[1].hotels
            concat == DispatchOrder(Len(task))
        IN  /\ Len(hotels) = Len(concat)
            /\ \A p \in MergePrices : Priced(hotels, Some(p)) = Priced(concat, Some(p))

\* a response to two adapters that both returned a hotel at the same price, the
\* first of the dispatch list with a tie inside its own list
C21_Witness ==
    /\ Responded
    /\ Len(task) = 2
    /\ task[1].returned # None /\ task[2].returned # None
    /\ Len(task[1].returned[1]) = 2
    /\ task[1].returned[1][1].price = Some(10)
    /\ task[1].returned[1][2].price = Some(10)
    /\ task[2].returned[1] # <<>>
    /\ task[2].returned[1][1].price = Some(10)
    /\ Len(Priced(response[1].hotels, Some(10))) >= 3

----------------------------------------------------------------------------
(* Malformed and priceless items, checked under SpecItems *)

\* criteria that supply no filter
NoFilters == Criteria(None, None, None, FALSE)

\* the item has no hotel id or no name: the key is missing, null or empty
LacksIdOrName(hotel) ==
    \/ hotel.id \in {"missing", "null", ""}
    \/ hotel.name = None
    \/ hotel.name = Some(<<>>)

\* C22: the items dropped as malformed are exactly those without a hotel id or
\* without a name (missing, null or empty): with no filter supplied, an item is
\* absent from the list search() returns if and only if it lacks one of the two;
\* and every item of the array that is accepted is in the list returned.
C22_ExactlyMalformedDropped ==
    item_out # None =>
        /\ TheCriteria = NoFilters =>
               (item_out[1] = <<>> <=> LacksIdOrName(TheHotel))
        /\ \A k \in DOMAIN item_in[1].hotels :
               ItemOutcome(item_in[1].name, TheCriteria, item_in[1].hotels[k]) = "accepted"
                   => \E j \in DOMAIN item_out[1] :
                          item_out[1][j] = _parse_hotel(item_in[1].name, item_in[1].hotels[k])[1]

\* C23: an item with a hotel id and a name but without a price under any of the
\* candidate paths is not dropped: with no filter supplied, search() returns a
\* result for it.
C23_PricelessItemReturned ==
    (item_out # None /\ TheCriteria = NoFilters
        /\ TheHotel.id = "h1" /\ TheHotel.name # None /\ TheHotel.price = None)
    => Len(item_out[1]) = 1

----------------------------------------------------------------------------
(* The backoff of _fetch_page, checked under SpecFetch *)

\* C24: the backoff wait between attempt n and attempt n+1 is min(2 * 2^(n-1), 10):
\* 2 after the first failed attempt, 4 after the second, never more than 10.
C24_BackoffDoubles ==
    \A n \in DOMAIN fetch.waits :
        /\ fetch.waits[n] = (IF 2 * Pow2(n - 1) < 10 THEN 2 * Pow2(n - 1) ELSE 10)
        /\ fetch.waits[n] <= 10

----------------------------------------------------------------------------
(* Pacing of the adapters' requests, checked under SpecSearch *)

\* C25: every request an adapter sends to its provider during a search, the
\* location lookup as well as the hotel search, comes right after the pacing delay.
C25_PacingBeforeEveryRequest ==
    \A i \in DOMAIN call.trace :
        call.trace[i] \in {"lookup_request", "search_request"} =>
            (i > 1 /\ call.trace[i - 1] = "sleep")

----------------------------------------------------------------------------
(* Rating normalisation, checked under SpecItems *)

\* C26: normalisation gives absent for an absent raw rating and otherwise
\* round(raw * 5 / S, 1), so 8.0 on the 0-10 scale gives 4.0 and 0 gives 0.0; and
\* so an item whose raw rating is 0 on the 0-10 scale comes back with the rating
\* 0.0, not with an absent one.
C26_ZeroRatingKept ==
    /\ _normalize_rating(None, 10) = None
    /\ _normalize_rating(Some(80), 10) = Some(40)
    /\ _normalize_rating(Some(0), 10) = Some(0)
    /\ (item_out # None /\ item_out[1] # <<>> /\ TheHotel.score = Some(0)) =>
           item_out[1][1].rating = Some(0)

----------------------------------------------------------------------------
(* Dispatch of a platform list with repetitions, checked under SpecBatch *)

\* no element occurs twice in the sequence
NoRepeats(seq) == \A i, j \in DOMAIN seq : seq[i] = seq[j] => i = j

\* C27: each registered adapter is dispatched at most once in a batch, also when
\* the platform list names it more than once: it has one task, its search runs
\* once, its name is once in platforms_searched and its hotels are once in the
\* merged list.
C27_DispatchedAtMostOnce ==
    /\ DistinctDispatch
    /\ NoRepeats(search_calls)
    /\ NoRepeats(platforms_searched)
    /\ Responded =>
           /\ NoRepeats(response[1].platforms_searched)
           /\ \A p \in Range(response[1].platforms_searched) :
                  \A i \in Returned :
                      scrapers[i].platform_name = p =>
                          Len(SelectSeq(response[1].hotels, LAMBDA h : h.platform = p))
                              = Len(task[i].returned[1])

----------------------------------------------------------------------------
(* Termination of a batch at the concurrency gate, checked under SpecGate *)

\* main.py 97: what a search that terminates returns here: nothing, or one hotel
GateResults(platform) == {<<>>, <<HotelResult(platform, 1, Some(10))>>}

\* the service after startup; max_concurrent_requests is a plain int of the
\* settings (config.py 13), zero and negative values included
InitGate ==
    /\ RegistryAtRest(DefaultPlatforms)
    /\ max_concurrent_requests \in -1..MaxConcurrent
    /\ BatchAtRest
    /\ redis_url = TRUE /\ redis_up = TRUE /\ CacheAtRest
    /\ KeyAtRest
    /\ AdapterAtRest
    /\ ItemAtRest /\ FetchAtRest /\ SingleAtRest /\ HttpAtRest

\* a task passes the gate
GateEnter == \E i \in DOMAIN task : TaskEnter(i)

\* the search of a task that is in the gate returns
GateReturn ==
    \E i \in DOMAIN task :
        \E results \in GateResults(scrapers[i].platform_name) : TaskReturn(i, results)

\* the search of a task that is in the gate raises
GateRaise == \E i \in DOMAIN task : \E message \in Messages : TaskRaise(i, message)

NextGate ==
    \/ \E platforms \in RequestPlatforms : SearchHotels(platforms)
    \/ GateEnter
    \/ GateReturn
    \/ GateRaise
    \/ Respond

\* the event loop runs every task that can run: a task that may pass the gate
\* does, every adapter search terminates (it returns or raises), and gather
\* resumes search_hotels once every task is done
SpecGate ==
    /\ InitGate
    /\ [][NextGate]_vars
    /\ WF_vars(GateEnter)
    /\ WF_vars(GateReturn \/ GateRaise)
    /\ WF_vars(Respond)

\* C28: every batch that is dispatched eventually returns its response, whatever
\* integer max_concurrent_requests is configured and however many adapters are
\* selected, given that every adapter search terminates: no task waits at the
\* gate forever.
C28_BatchEventuallyResponds ==
    [](phase \in {"gathering", "failed"} => <>Responded)

----------------------------------------------------------------------------
(* scrapers/base.py: get_client and close of one adapter, interleaved *)

MaxClients == 3         \* most HTTP clients one adapter creates

\* the clients the adapter has created that are not closed (is_closed is False)
OpenClients == (1..http.created) \ http.closed

\* base.py 27-35 (called at booking_api.py 41 and 96, and alike in the other
\* adapters): a search calls get_client(): a new client when there is none or
\* the one held is closed, else the one held; the search goes on to send its
\* request on it.  get_client has no await
HttpGetClient(s) ==
    /\ http.using[s] = None
    /\ IF http._client = None \/ http._client[1] \in http.closed
       THEN /\ http.created < MaxClients
            /\ http' = [http EXCEPT !._client = Some(http.created + 1),
                                    !.created = @ + 1,
                                    !.using[s] = Some(http.created + 1),
                                    !.returned = FALSE]
       ELSE http' = [http EXCEPT !.using[s] = http._client, !.returned = FALSE]
    /\ UNCHANGED <<registry_vars, batch_vars, cache_vars, key_vars, adapter_vars, item_vars,
                   fetch_vars, single_vars>>

\* booking_api.py 48 and 115 (and alike): the request of the search ends, with a
\* response or with the error of a client closed under it
HttpRequestEnds(s) ==
    /\ http.using[s] # None
    /\ http' = [http EXCEPT !.using[s] = None, !.returned = FALSE]
    /\ UNCHANGED <<registry_vars, batch_vars, cache_vars, key_vars, adapter_vars, item_vars,
                   fetch_vars, single_vars>>

\* base.py 37-40: close() is called.  With an open client it awaits aclose(),
\* which marks the client closed at once and then suspends in the release of
\* its transport; with none, or a closed one, close() returns
CloseStart ==
    /\ http.close = "idle"
    /\ IF http._client # None /\ http._client[1] \notin http.closed
       THEN http' = [http EXCEPT !.close = "releasing",
                                 !.closed = @ \cup {http._client[1]},
                                 !.returned = FALSE]
       ELSE http' = [http EXCEPT !.returned = TRUE, !.leftover = OpenClients]
    /\ UNCHANGED <<registry_vars, batch_vars, cache_vars, key_vars, adapter_vars, item_vars,
                   fetch_vars, single_vars>>

\* base.py 40-41: aclose() is through; close() sets _client to None and returns
CloseResume ==
    /\ http.close = "releasing"
    /\ http' = [http EXCEPT !.close = "idle", !._client = None,
                            !.returned = TRUE, !.leftover = OpenClients]
    /\ UNCHANGED <<registry_vars, batch_vars, cache_vars, key_vars, adapter_vars, item_vars,
                   fetch_vars, single_vars>>

InitHttp ==
    /\ RegistryAtRest(DefaultPlatforms)
    /\ max_concurrent_requests = DefaultMaxConcurrent
    /\ BatchAtRest
    /\ redis_url = TRUE /\ redis_up = TRUE /\ CacheAtRest
    /\ KeyAtRest
    /\ AdapterAtRest
    /\ ItemAtRest /\ FetchAtRest /\ SingleAtRest
    /\ http = IdleHttp

NextHttp ==
    \/ \E s \in 1..MaxSearches : HttpGetClient(s)
    \/ \E s \in 1..MaxSearches : HttpRequestEnds(s)
    \/ CloseStart
    \/ CloseResume

SpecHttp == InitHttp /\ [][NextHttp]_vars

\* C29: however searches and close() interleave on one adapter, the adapter has
\* at most one open HTTP client at a time, an open client is the one the adapter
\* holds unless close() is releasing, and when close() has returned none of the
\* clients the adapter created is open.
C29_OneClientNoneAfterClose ==
    /\ Cardinality(OpenClients) <= 1
    /\ http.close = "idle" =>
           \A c \in OpenClients : http._client = Some(c)
    /\ http.returned => http.leftover = {}

----------------------------------------------------------------------------
(* Destination identifiers, checked under SpecSearch *)

\* an actual destination identifier: neither absent nor the text "None"
ActualId(id) == id # None /\ id # Some("None")

\* C30: a destination record is written to the cache only when the lookup yielded
\* an actual identifier, and no search request goes to the provider with an
\* identifier that is absent or the placeholder of a missing one.
C30_OnlyActualIdentifiers ==
    /\ \A c \in DOMAIN lookups :
           (lookups[c] # None /\ lookups[c][1].intact) => ActualId(lookups[c][1].id)
    /\ Occurs("search_request") => (call.ret # None /\ ActualId(call.ret[1].id))

====
